---- MODULE Spec2Model ----
(***************************************************************************)
(* SplitWisely: the equal-split allocator (services/expenses.ts), the      *)
(* dashboard balance fold (pages/DashboardPage.tsx) and the services and   *)
(* hooks that feed it.                                                     *)
(*                                                                         *)
(* Numbers.  A JavaScript number holding money is modelled as an integer   *)
(* count of mills (0.001 of the currency unit), so that 10.00 is 10000 and *)
(* the half-cent threshold 0.005 is 5.  A numeric(12,2) column, which the  *)
(* client reads and writes as a string with two decimals, is modelled as   *)
(* an integer count of cents.  toFixed(2) and parseFloat are the           *)
(* conversions between the two.  Sums and differences of mills are exact;  *)
(* the IEEE-754 noise of the real fold (about 1e-13 per operation) is far  *)
(* below one mill and is not modelled, except where a product lands on a   *)
(* rounding tie (see MathRound100) and where a difference is compared with *)
(* 0.01 at exactly one cent (see exceedsTolerance).                        *)
(***************************************************************************)
EXTENDS Integers, Sequences, FiniteSets, TLC

\* ---------------------------------------------------------------- bounds
MaxAmount == 45
MaxParticipants == 3
MaxNet == 60
MaxLedgerRows == 2
MaxSessionLedgerRows == 1
MaxServiceCalls == 3
MaxGroupCalls == 2

\* Iterations of the legacy settlement loop that are followed.
MaxIterations == 6

\* Operations one mounted hook starts, the refresh of its mount included.
MaxHookOps == 3

\* ------------------------------------------------------------ identities
NULL == "null"
Profiles == {"a", "b", "c"}

\* The users that sign in on this client.
SessionUsers == {"a", "b"}

\* The amounts typed into the expense and settlement forms, in mills.
ExpenseAmounts == {10000}
SettlementAmounts == {3330}

\* What a custom split enters for the first participant beyond its equal
\* share, in mills: one cent over, two cents over.
CustomDeltas == {10, 20}

\* The datastore the model starts from: three groups, two in USD and one
\* in EUR.  g2 has no membership row for its owner b, as after an import
\* whose payload lists only a as member (expenses.ts:305-324).
InitialGroups ==
  << [id |-> "g1", owner_id |-> "a", currency |-> "USD"],
     [id |-> "g2", owner_id |-> "b", currency |-> "USD"],
     [id |-> "g3", owner_id |-> "c", currency |-> "EUR"] >>

InitialGroupMembers ==
  << [group_id |-> "g1", member_id |-> "a", role |-> "owner"],
     [group_id |-> "g1", member_id |-> "b", role |-> "member"],
     [group_id |-> "g1", member_id |-> "c", role |-> "member"],
     [group_id |-> "g2", member_id |-> "a", role |-> "member"],
     [group_id |-> "g3", member_id |-> "c", role |-> "owner"],
     [group_id |-> "g3", member_id |-> "a", role |-> "member"] >>

VARIABLES
  \* one call of computeEqualSplit
  sp_pc, sp_amount, sp_participantIds, sp_shares,
  \* one call of formatNetStatus
  ns_pc, ns_net, ns_currency, ns_status,
  \* the datastore tables
  db_groups, db_group_members, db_expenses, db_expense_splits, db_settlements,
  db_nextId,
  \* the session user (SupabaseProvider)
  userId,
  \* DashboardPage: mounted, refreshes in flight, the three hooks' lists and
  \* the value of the useMemo
  d_mounted, d_pending, h_groups, h_expenses, h_settlements,
  groupSummaries, currencySummaries,
  \* what the caller of the last service call saw, and how many calls were
  \* made
  svc_call, svc_count,
  \* one validation of an expense's shares
  tol_pc, tol_validator, tol_amount, tol_shares, tol_verdict,
  \* one evaluation of the Dashboard's fold on given lists
  fold_pc, fold_expenses, fold_settlements, fold_result,
  \* the argument of the last group service or restore called, and what
  \* the last importUserData returned or threw
  svc_input, imp_result,
  \* one call of the legacy optimizeSettlements: its argument, the two
  \* lists it builds, its loop indices and the settlements pushed
  opt_pc, opt_balances, opt_debtors, opt_creditors, opt_i, opt_j, opt_settlements,
  \* one mounted data hook (useExpenses, useSettlements or useGroups): the
  \* operations it has started, its filtersRef, its table, the list it
  \* holds, isLoading and error
  uh_hook, uh_ops, uh_filtersRef, uh_rows, uh_list, uh_isLoading, uh_error

vars == <<sp_pc, sp_amount, sp_participantIds, sp_shares,
          ns_pc, ns_net, ns_currency, ns_status,
          db_groups, db_group_members, db_expenses, db_expense_splits,
          db_settlements, db_nextId, userId,
          d_mounted, d_pending, h_groups, h_expenses, h_settlements,
          groupSummaries, currencySummaries, svc_call, svc_count,
          tol_pc, tol_validator, tol_amount, tol_shares, tol_verdict,
          fold_pc, fold_expenses, fold_settlements, fold_result,
          svc_input, imp_result,
          opt_pc, opt_balances, opt_debtors, opt_creditors, opt_i, opt_j,
          opt_settlements,
          uh_hook, uh_ops, uh_filtersRef, uh_rows, uh_list, uh_isLoading, uh_error>>

splitVars == <<sp_pc, sp_amount, sp_participantIds, sp_shares>>
netVars == <<ns_pc, ns_net, ns_currency, ns_status>>
dbVars == <<db_groups, db_group_members, db_expenses, db_expense_splits,
            db_settlements, db_nextId>>
hookVars == <<d_mounted, d_pending, h_groups, h_expenses, h_settlements>>
memoVars == <<groupSummaries, currencySummaries>>
svcVars == <<svc_call, svc_count>>
tolVars == <<tol_pc, tol_validator, tol_amount, tol_shares, tol_verdict>>
dashVars == <<dbVars, userId, hookVars, memoVars, svcVars>>
foldVars == <<fold_pc, fold_expenses, fold_settlements, fold_result>>
impVars == <<svc_input, imp_result>>
optVars == <<opt_pc, opt_balances, opt_debtors, opt_creditors, opt_i, opt_j,
            opt_settlements>>
uhVars == <<uh_hook, uh_ops, uh_filtersRef, uh_rows, uh_list, uh_isLoading, uh_error>>
newVars == <<optVars, uhVars>>
lateVars == <<foldVars, impVars, newVars>>

\* --------------------------------------------------------------- helpers
Abs(x) == IF x < 0 THEN -x ELSE x

Max(x, y) == IF x > y THEN x ELSE y

RECURSIVE SumSeq(_)
SumSeq(s) == IF s = <<>> THEN 0 ELSE Head(s) + SumSeq(Tail(s))

SeqsUpTo(S, n) == UNION {[1..k -> S] : k \in 0..n}

\* ------------------------------------------------- services/expenses.ts
\* Math.round(amount * 100) for amount given in mills.  Math.round rounds
\* to the nearest integer, a tie going up.  When amount * 100 is a tie in
\* exact arithmetic (amount ends in 5 mills) the double product may be the
\* tie itself or fall just below it (1.005 * 100 = 100.49999999999999 but
\* 0.125 * 100 = 12.5), so both neighbours are possible results.
MathRound100(amount) ==
  IF amount % 10 = 5
    THEN {amount \div 10, amount \div 10 + 1}
    ELSE {(amount + 5) \div 10}

\* Mutant: the remainder is dropped, every share is baseShare.
EqualShares_dropRemainder(totalCents, participantIds) ==
  LET participantCount == Max(Len(participantIds), 1)
      baseShare == totalCents \div participantCount
  IN  [index \in 1..Len(participantIds) |-> baseShare * 10]

\* Mutant: the extra cents go to the last `remainder` participants.
EqualShares_extraToLast(totalCents, participantIds) ==
  LET participantCount == Max(Len(participantIds), 1)
      baseShare == totalCents \div participantCount
      remainder == totalCents - baseShare * participantCount
  IN  [index \in 1..Len(participantIds) |->
         (baseShare + (IF index > Len(participantIds) - remainder THEN 1 ELSE 0)) * 10]

\* Mutant: one share per counted participant, the count being clamped to 1.
EqualShares_clampedLength(totalCents, participantIds) ==
  LET participantCount == Max(Len(participantIds), 1)
      baseShare == totalCents \div participantCount
      remainder == totalCents - baseShare * participantCount
  IN  [index \in 1..participantCount |->
         (baseShare + (IF index - 1 < remainder THEN 1 ELSE 0)) * 10]

\* Mutant: the extra cents go to the participants whose ids come first in
\* alphabetical order, wherever they stand in the list.
EqualShares_extraByIdentity(totalCents, participantIds) ==
  LET participantCount == Max(Len(participantIds), 1)
      baseShare == totalCents \div participantCount
      remainder == totalCents - baseShare * participantCount
      rank(id) == CHOOSE k \in 1..3 : <<"a", "b", "c">>[k] = id
      before(index) ==
        Cardinality({j \in DOMAIN participantIds :
                       \/ rank(participantIds[j]) < rank(participantIds[index])
                       \/ /\ participantIds[j] = participantIds[index]
                          /\ j < index})
  IN  [index \in 1..Len(participantIds) |->
         (baseShare + (IF before(index) < remainder THEN 1 ELSE 0)) * 10]

\* The share list computed from totalCents; each share is shareCents / 100,
\* i.e. shareCents * 10 mills.
EqualShares(totalCents, participantIds) ==
  LET participantCount == Max(Len(participantIds), 1)
      baseShare == totalCents \div participantCount
      remainder == totalCents - baseShare * participantCount
  IN  [index \in 1..Len(participantIds) |->
         (baseShare + (IF index - 1 < remainder THEN 1 ELSE 0)) * 10]

\* computeEqualSplit(amount, participantIds): the set of share lists the
\* call can return, one per possible value of Math.round(amount * 100).
computeEqualSplit(amount, participantIds) ==
  {EqualShares(totalCents, participantIds) : totalCents \in MathRound100(amount)}

\* ------------------------------------------------- services/groups.ts
RECURSIVE Reverse(_)
Reverse(s) == IF s = <<>> THEN <<>> ELSE Append(Reverse(Tail(s)), Head(s))

SeqToSet(s) == {s[i] : i \in DOMAIN s}

\* The rows of s that satisfy Test, in order (Array.prototype.filter, a
\* where clause).
Filter(s, Test(_)) == SelectSeq(s, Test)

\* select group_id from group_members where member_id = userId, as a set.
fetchGroupIdsForUser(uid) ==
  {db_group_members[i].group_id :
     i \in {j \in DOMAIN db_group_members : db_group_members[j].member_id = uid}}

\* The group_members relation of groupSelect for one group.
groupMembersOf(gid) ==
  LET InGroup(row) == row.group_id = gid
  IN  Filter(db_group_members, InGroup)

\* Mutant: no owner entry is added.
normalizeGroupMembers_noOwner(group) == group

\* normalizeGroupMembers: appends an 'owner' entry for owner_id when no
\* membership row has that id.  (Profile hydration only changes display
\* names and is left out.)
normalizeGroupMembers(group) ==
  LET members == group.group_members
      hasOwnerMembership == \E i \in DOMAIN members : members[i].member_id = group.owner_id
  IN  [group EXCEPT !.group_members =
         IF ~hasOwnerMembership
           THEN Append(members, [group_id |-> group.id, member_id |-> group.owner_id,
                                 role |-> "owner"])
           ELSE members]

\* fetchGroups for the signed-in user uid: the groups in which uid has a
\* membership row, newest first, each with its membership rows, normalized.
\* (The owner backfill upsert of lines 156-180 needs a fetched group whose
\* owner is uid and has no row; within one snapshot no fetched group is
\* such, so it writes nothing.)
fetchGroups(uid) ==
  LET groupIds == fetchGroupIdsForUser(uid)
      Accessible(row) == row.id \in groupIds
      rows == Reverse(Filter(db_groups, Accessible))
  IN  [i \in DOMAIN rows |->
         normalizeGroupMembers(
           [id |-> rows[i].id, owner_id |-> rows[i].owner_id,
            currency |-> rows[i].currency,
            group_members |-> groupMembersOf(rows[i].id)])]

\* ------------------------------------------------- services/expenses.ts
\* The expense_splits relation of expenseSelect for one expense.
expenseSplitsOf(eid) ==
  LET OfExpense(row) == row.expense_id = eid
      rows == Filter(db_expense_splits, OfExpense)
  IN  [i \in DOMAIN rows |-> [member_id |-> rows[i].member_id, share |-> rows[i].share]]

\* fetchExpenses({}) for the signed-in user uid: the expenses of the
\* accessible groups, newest first, kept when uid is the payer or a split
\* participant.
fetchExpenses(uid) ==
  LET accessibleGroupIds == fetchGroupIdsForUser(uid)
      InTarget(row) == row.group_id \in accessibleGroupIds
      rows == Reverse(Filter(db_expenses, InTarget))
      hydrated == [i \in DOMAIN rows |->
                     [id |-> rows[i].id, group_id |-> rows[i].group_id,
                      payer_id |-> rows[i].payer_id, amount |-> rows[i].amount,
                      expense_splits |-> expenseSplitsOf(rows[i].id)]]
      Involved(expense) ==
        \/ expense.payer_id = uid
        \/ \E k \in DOMAIN expense.expense_splits : expense.expense_splits[k].member_id = uid
  IN  IF accessibleGroupIds = {} THEN <<>> ELSE Filter(hydrated, Involved)

\* formatCurrency of the services: value.toFixed(2), as cents.  toFixed
\* rounds the exact value of the double; a decimal ending in 5 mills is
\* almost never exactly representable, so it may go either way.
formatCurrency(value) ==
  IF value % 10 = 5
    THEN {value \div 10, value \div 10 + 1}
    ELSE {(value + 5) \div 10}

\* ---------------------------------------------- services/settlements.ts
\* fetchSettlements({}): every settlement row, newest first.
fetchSettlements ==
  Reverse(db_settlements)

\* ------------------------------------------------ pages/DashboardPage.tsx
\* An amount or share that is missing or not a number (undefined, null,
\* NaN, a string parseFloat cannot read), kept apart from every cent count.
NotANumber == -1

\* parseCurrencyAmount of a numeric(12,2) column value (cents): parseFloat
\* of its two-decimal string, in mills; 0 for an input that is not a
\* finite number.  (The columns are declared not null, so a stored row
\* never takes the second branch.)
parseCurrencyAmount(input) == IF input = NotANumber THEN 0 ELSE input * 10

\* Intl.NumberFormat(style: 'currency').format(value): the value rounded
\* to the two fraction digits of the currency, a tie going away from zero,
\* tagged with the currency.
formatCurrencyIntl(value, currency) ==
  [currency |-> currency,
   cents |-> IF value >= 0 THEN (value + 5) \div 10 ELSE -((-value + 5) \div 10)]

\* Mutant: the thresholds are inclusive (>= 0.005, <= -0.005).
formatNetStatus_inclusive(net, currency) ==
  LET absolute == Abs(net)
  IN  IF net >= 5
        THEN [tone |-> "positive", text |-> "You are owed",
              value |-> formatCurrencyIntl(absolute, currency)]
      ELSE IF net <= -5
        THEN [tone |-> "negative", text |-> "You owe",
              value |-> formatCurrencyIntl(absolute, currency)]
      ELSE [tone |-> "neutral", text |-> "You are settled"]

formatNetStatus(net, currency) ==
  LET absolute == Abs(net)
  IN  IF net > 5
        THEN [tone |-> "positive", text |-> "You are owed",
              value |-> formatCurrencyIntl(absolute, currency)]
      ELSE IF net < -5
        THEN [tone |-> "negative", text |-> "You owe",
              value |-> formatCurrencyIntl(absolute, currency)]
      ELSE [tone |-> "neutral", text |-> "You are settled"]

\* The tracker Map, as its entries in insertion order.
hasTracker(tracker, memberId) ==
  \E i \in DOMAIN tracker : tracker[i].memberId = memberId

ensureTracker(tracker, memberId) ==
  IF ~hasTracker(tracker, memberId)
    THEN Append(tracker, [memberId |-> memberId, paid |-> 0, owed |-> 0])
    ELSE tracker

\* record.paid += amount on the entry ensureTracker(memberId) returns.
addPaid(tracker, memberId, amount) ==
  LET t == ensureTracker(tracker, memberId)
  IN  [i \in DOMAIN t |->
         IF t[i].memberId = memberId THEN [t[i] EXCEPT !.paid = @ + amount] ELSE t[i]]

\* record.owed += share on the entry ensureTracker(memberId) returns.
addOwed(tracker, memberId, share) ==
  LET t == ensureTracker(tracker, memberId)
  IN  [i \in DOMAIN t |->
         IF t[i].memberId = memberId THEN [t[i] EXCEPT !.owed = @ + share] ELSE t[i]]

\* (expense.expense_splits ?? []).forEach(...)
RECURSIVE foldSplits(_, _)
foldSplits(tracker, splits) ==
  IF splits = <<>> THEN tracker
  ELSE foldSplits(addOwed(tracker, Head(splits).member_id,
                          parseCurrencyAmount(Head(splits).share)),
                  Tail(splits))

\* Mutant: the amount is not added to the payer's paid.
foldExpense_skipPayer(tracker, expense) ==
  foldSplits(tracker, expense.expense_splits)

\* relevantExpenses.forEach(...)
foldExpense(tracker, expense) ==
  LET amount == parseCurrencyAmount(expense.amount)
      afterPayer == IF expense.payer_id # NULL
                      THEN addPaid(tracker, expense.payer_id, amount)
                      ELSE tracker
  IN  foldSplits(afterPayer, expense.expense_splits)

RECURSIVE foldExpenses(_, _)
foldExpenses(tracker, expenses) ==
  IF expenses = <<>> THEN tracker
  ELSE foldExpenses(foldExpense(tracker, Head(expenses)), Tail(expenses))

\* members.forEach((member) => ensureTracker(member.member_id))
RECURSIVE seedMembers(_, _)
seedMembers(tracker, members) ==
  IF members = <<>> THEN tracker
  ELSE seedMembers(ensureTracker(tracker, Head(members).member_id), Tail(members))

\* Mutant: only the payer's owed is lowered.
foldSettlement_owedOnly(tracker, settlement) ==
  LET amount == parseCurrencyAmount(settlement.amount)
      withBoth == ensureTracker(ensureTracker(tracker, settlement.from_member),
                                settlement.to_member)
  IN  addOwed(withBoth, settlement.from_member, -amount)

\* Mutant: the two records are swapped (the payer's paid and the
\* receiver's owed are lowered).
foldSettlement_swapped(tracker, settlement) ==
  LET amount == parseCurrencyAmount(settlement.amount)
      withBoth == ensureTracker(ensureTracker(tracker, settlement.from_member),
                                settlement.to_member)
  IN  addPaid(addOwed(withBoth, settlement.to_member, -amount),
              settlement.from_member, -amount)

\* Mutant: the payer's owed is raised instead of lowered.
foldSettlement_raisesOwed(tracker, settlement) ==
  LET amount == parseCurrencyAmount(settlement.amount)
      withBoth == ensureTracker(ensureTracker(tracker, settlement.from_member),
                                settlement.to_member)
  IN  addPaid(addOwed(withBoth, settlement.from_member, amount),
              settlement.to_member, -amount)

\* Mutant: a party that has no entry yet is passed over.
foldSettlement_knownOnly(tracker, settlement) ==
  LET amount == parseCurrencyAmount(settlement.amount)
      afterPayer == IF hasTracker(tracker, settlement.from_member)
                      THEN addOwed(tracker, settlement.from_member, -amount)
                      ELSE tracker
  IN  IF hasTracker(afterPayer, settlement.to_member)
        THEN addPaid(afterPayer, settlement.to_member, -amount)
        ELSE afterPayer

\* relevantSettlements.forEach(...): payerRecord.owed -= amount;
\* receiverRecord.paid -= amount.
foldSettlement(tracker, settlement) ==
  LET amount == parseCurrencyAmount(settlement.amount)
      withBoth == ensureTracker(ensureTracker(tracker, settlement.from_member),
                                settlement.to_member)
  IN  addPaid(addOwed(withBoth, settlement.from_member, -amount),
              settlement.to_member, -amount)

RECURSIVE foldSettlements(_, _)
foldSettlements(tracker, settlements) ==
  IF settlements = <<>> THEN tracker
  ELSE foldSettlements(foldSettlement(tracker, Head(settlements)), Tail(settlements))

\* memberSummaries.sort((a, b) => b.net - a.net): a stable sort, net
\* descending.
RECURSIVE insertByNet(_, _)
insertByNet(sorted, entry) ==
  IF sorted = <<>> THEN <<entry>>
  ELSE IF Head(sorted).net >= entry.net
    THEN <<Head(sorted)>> \o insertByNet(Tail(sorted), entry)
    ELSE <<entry>> \o sorted

RECURSIVE sortByNet(_, _)
sortByNet(sorted, rest) ==
  IF rest = <<>> THEN sorted
  ELSE sortByNet(insertByNet(sorted, Head(rest)), Tail(rest))

\* The body of groups.map((group) => ...): the summary of one group.
groupSummary(group, expenses, settlements) ==
  LET currency == IF group.currency = NULL THEN "USD" ELSE group.currency
      members == group.group_members
      OfGroup(row) == row.group_id = group.id
      relevantExpenses == Filter(expenses, OfGroup)
      relevantSettlements == Filter(settlements, OfGroup)
      tracker == foldSettlements(
                   seedMembers(foldExpenses(<<>>, relevantExpenses), members),
                   relevantSettlements)
      memberSummaries == [i \in DOMAIN tracker |->
                            [memberId |-> tracker[i].memberId,
                             paid |-> tracker[i].paid,
                             owed |-> tracker[i].owed,
                             net |-> tracker[i].paid - tracker[i].owed]]
      totalSpent == SumSeq([i \in DOMAIN relevantExpenses |->
                              parseCurrencyAmount(relevantExpenses[i].amount)])
  IN  [group |-> group.id, currency |-> currency, totalSpent |-> totalSpent,
       members |-> sortByNet(<<>>, memberSummaries)]

summariesOf(groups, expenses, settlements) ==
  [i \in DOMAIN groups |-> groupSummary(groups[i], expenses, settlements)]

\* Mutant: a user without an entry is given one of zeros.
findMember_zeroWhenMissing(members, uid) ==
  LET IsUser(member) == member.memberId = uid
      found == Filter(members, IsUser)
  IN  IF found = <<>>
        THEN <<[memberId |-> uid, paid |-> 0, owed |-> 0, net |-> 0]>>
        ELSE found

\* summary.members.find((member) => member.memberId === userId), as the
\* sequence of matches; find returns the first.
findMember(members, uid) ==
  LET IsUser(member) == member.memberId = uid
  IN  Filter(members, IsUser)

\* Mutant: every group is added to the first bucket, whatever its
\* currency.
addToCurrency_oneBucket(totals, currency, member) ==
  IF totals # <<>>
    THEN [i \in DOMAIN totals |->
            IF i = 1
              THEN [currency |-> totals[1].currency,
                    paid |-> totals[1].paid + member.paid,
                    owed |-> totals[1].owed + member.owed,
                    net |-> totals[1].net + member.net]
              ELSE totals[i]]
    ELSE Append(totals, [currency |-> currency, paid |-> member.paid,
                         owed |-> member.owed, net |-> member.net])

\* currencyTotals.get(currency) ?? {paid: 0, owed: 0, net: 0}, then the
\* three += and currencyTotals.set(currency, entry); the Map is kept as
\* its entries in insertion order.
addToCurrency(totals, currency, member) ==
  IF \E i \in DOMAIN totals : totals[i].currency = currency
    THEN [i \in DOMAIN totals |->
            IF totals[i].currency = currency
              THEN [currency |-> currency,
                    paid |-> totals[i].paid + member.paid,
                    owed |-> totals[i].owed + member.owed,
                    net |-> totals[i].net + member.net]
              ELSE totals[i]]
    ELSE Append(totals, [currency |-> currency, paid |-> member.paid,
                         owed |-> member.owed, net |-> member.net])

\* summaries.forEach(...) building currencyTotals, then currencySummaries.
RECURSIVE currencyTotalsOf(_, _, _)
currencyTotalsOf(totals, summaries, uid) ==
  IF summaries = <<>> THEN totals
  ELSE LET summary == Head(summaries)
           currentUser == findMember(summary.members, uid)
       IN  IF uid = NULL \/ currentUser = <<>>
             THEN currencyTotalsOf(totals, Tail(summaries), uid)
             ELSE currencyTotalsOf(addToCurrency(totals, summary.currency, Head(currentUser)),
                                   Tail(summaries), uid)

\* ---------------------------------------------- pages (ExpensesPage etc.)
\* deriveSplits(values): the set of split lists it can return (one per
\* result of computeEqualSplit).  values.amount and the custom shares are
\* the parsed form inputs, in mills.
deriveSplits(values) ==
  IF Len(values.participantIds) = 0 \/ values.amount <= 0
    THEN {<<>>}
  ELSE IF values.splitMode = "equal"
    THEN {[index \in DOMAIN values.participantIds |->
             [memberId |-> values.participantIds[index], share |-> evenShares[index]]] :
          evenShares \in computeEqualSplit(values.amount, values.participantIds)}
  ELSE {[index \in DOMAIN values.participantIds |->
           [memberId |-> values.participantIds[index],
            share |-> values.customSplits[index]]]}

\* reduce((sum, split) => sum + split.share, 0)
totalSplitOf(splits) == SumSeq([i \in DOMAIN splits |-> splits[i].share])

\* Math.abs(totalSplit - amount) > 0.01 on doubles.  A difference of
\* exactly one cent falls on either side of the literal 0.01, depending on
\* the operands: 10.01 - 10 and 9.99 - 10 give 0.009999999999999787 (not
\* above 0.01), 1.01 - 1 and 0.99 - 1 give 0.010000000000000009 (above),
\* for every share list drawn here; for other amounts both answers are
\* possible.
exceedsTolerance(totalSplit, amount) ==
  IF Abs(totalSplit - amount) = 10
    THEN IF amount = 10000 THEN {FALSE}
         ELSE IF amount = 1000 THEN {TRUE}
         ELSE {TRUE, FALSE}
  ELSE {Abs(totalSplit - amount) > 10}

\* The validation of createExpense and updateExpense (lines 98-104,
\* 158-164): the set of possible verdicts, each the error thrown or "ok".
validateExpenseInput_emptyAllowed(input) ==
  IF Len(input.splits) = 0
    THEN {"ok"}
  ELSE {IF exceeds THEN "Split shares must add up to the total amount" ELSE "ok" :
        exceeds \in exceedsTolerance(totalSplitOf(input.splits), input.amount)}

validateExpenseInput(input) ==
  IF Len(input.splits) = 0
    THEN {"Provide at least one split participant"}
  ELSE {IF exceeds THEN "Split shares must add up to the total amount" ELSE "ok" :
        exceeds \in exceedsTolerance(totalSplitOf(input.splits), input.amount)}

\* What a caller sees of one call: the operation, the amount passed (in
\* mills), how many splits (or participants) were passed, totalSplit -
\* amount in mills, whether the two members of a settlement were the same,
\* and the message of the error thrown or "ok".
Observed(op, amount, count, diff, same, verdict) ==
  [op |-> op, amount |-> amount, count |-> count, diff |-> diff, same |-> same,
   verdict |-> verdict]

NoCall == Observed("none", 0, 0, 0, FALSE, "ok")

InitIdleTolerance ==
  /\ tol_pc = "idle" /\ tol_validator = "none" /\ tol_amount = 0
  /\ tol_shares = <<>> /\ tol_verdict = "none"

NoResult == [thrown |-> FALSE, summaries |-> <<>>]

InitIdleFold ==
  /\ fold_pc = "idle" /\ fold_expenses = <<>> /\ fold_settlements = <<>>
  /\ fold_result = NoResult

\* importUserData's result before the loop (268-272), nothing thrown.
EmptyImportResult == [thrown |-> "none", imported |-> 0, skipped |-> <<>>, errors |-> 0]

NoInput == [none |-> TRUE]

InitIdleImport ==
  /\ svc_input = NoInput
  /\ imp_result = EmptyImportResult

InitIdleOptimize ==
  /\ opt_pc = "idle" /\ opt_balances = <<>>
  /\ opt_debtors = <<>> /\ opt_creditors = <<>>
  /\ opt_i = 0 /\ opt_j = 0 /\ opt_settlements = <<>>

NoFilters == "{}"

NoList == [filters |-> "unloaded", rows |-> 0]

InitIdleHook ==
  /\ uh_hook = "none" /\ uh_ops = <<>>
  /\ uh_filtersRef = NoFilters /\ uh_rows = 0
  /\ uh_list = NoList /\ uh_isLoading = TRUE /\ uh_error = "null"

InitIdleNew == InitIdleOptimize /\ InitIdleHook

InitIdleLate ==
  /\ InitIdleFold
  /\ InitIdleImport
  /\ InitIdleNew

\* ============================================================ SpecSplit
\* One call of computeEqualSplit on an arbitrary amount and participant
\* list.
InitIdleNet ==
  /\ ns_pc = "idle" /\ ns_net = 0 /\ ns_currency = "USD" /\ ns_status = NULL

InitIdleSplit ==
  /\ sp_pc = "idle" /\ sp_amount = 0 /\ sp_participantIds = <<>> /\ sp_shares = <<>>

InitIdleDash ==
  /\ db_groups = InitialGroups
  /\ db_group_members = InitialGroupMembers
  /\ db_expenses = <<>>
  /\ db_expense_splits = <<>>
  /\ db_settlements = <<>>
  /\ db_nextId = 1
  /\ userId = "a"
  /\ d_mounted = FALSE
  /\ d_pending = {}
  /\ h_groups = <<>>
  /\ h_expenses = <<>>
  /\ h_settlements = <<>>
  /\ groupSummaries = <<>>
  /\ currencySummaries = <<>>
  /\ svc_call = NoCall
  /\ svc_count = 0

InitSplit ==
  /\ sp_pc = "call"
  /\ sp_amount \in (0..MaxAmount) \cup ExpenseAmounts
  /\ sp_participantIds \in SeqsUpTo(Profiles, MaxParticipants)
  /\ sp_shares = <<>>
  /\ InitIdleNet
  /\ InitIdleDash
  /\ InitIdleTolerance
  /\ InitIdleLate

\* Mutant: the ids are shifted off the caller's list as they are served.
CallComputeEqualSplit_consumesList ==
  /\ sp_pc = "call"
  /\ \E result \in computeEqualSplit(sp_amount, sp_participantIds) :
       sp_shares' = result
  /\ sp_pc' = "returned"
  /\ sp_participantIds' = <<>>
  /\ UNCHANGED sp_amount
  /\ UNCHANGED <<netVars, dashVars, tolVars, lateVars>>

CallComputeEqualSplit ==
  /\ sp_pc = "call"
  /\ \E result \in computeEqualSplit(sp_amount, sp_participantIds) :
       sp_shares' = result
  /\ sp_pc' = "returned"
  /\ UNCHANGED <<sp_amount, sp_participantIds>>
  /\ UNCHANGED <<netVars, dashVars, tolVars, lateVars>>

NextSplit == CallComputeEqualSplit

SpecSplit == InitSplit /\ [][NextSplit]_vars

\* ============================================================== SpecNet
\* One call of formatNetStatus on an arbitrary net position.
InitNet ==
  /\ ns_pc = "call"
  /\ ns_net \in (-MaxNet)..MaxNet
  /\ ns_currency \in {"USD", "EUR"}
  /\ ns_status = NULL
  /\ InitIdleSplit
  /\ InitIdleDash
  /\ InitIdleTolerance
  /\ InitIdleLate

CallFormatNetStatus ==
  /\ ns_pc = "call"
  /\ ns_status' = formatNetStatus(ns_net, ns_currency)
  /\ ns_pc' = "returned"
  /\ UNCHANGED <<ns_net, ns_currency>>
  /\ UNCHANGED <<splitVars, dashVars, tolVars, lateVars>>

NextNet == CallFormatNetStatus

SpecNet == InitNet /\ [][NextNet]_vars

\* ============================================================= SpecDash
\* The ledger is written through the Expenses, Settlements and Groups
\* pages and read by the Dashboard.  The pages are routes of one App, so
\* the ledger is written while the Dashboard is not mounted.
memberIdsOf(group) ==
  [i \in DOMAIN group.group_members |-> group.group_members[i].member_id]

\* The participant selections tried: every member of the group (the form's
\* default) or nobody.
ParticipantChoices(group) == {memberIdsOf(group), <<>>}

\* The payers tried: the form's default (the first member listed) and the
\* group's owner.
PayerChoices(group) == {memberIdsOf(group)[1], group.owner_id}

\* The custom shares tried: the equal shares with the first one raised.
CustomSplitChoices(amount, participantIds) ==
  IF participantIds = <<>> THEN {<<>>}
  ELSE {[i \in DOMAIN participantIds |-> base[i] + (IF i = 1 THEN delta ELSE 0)] :
        base \in computeEqualSplit(amount, participantIds), delta \in CustomDeltas}

\* Every way of writing the shares as two-decimal strings.
storedShares(splits) ==
  {cents \in [DOMAIN splits -> UNION {formatCurrency(splits[i].share) : i \in DOMAIN splits}] :
     \A i \in DOMAIN splits : cents[i] \in formatCurrency(splits[i].share)}

\* The useMemo of DashboardPage, evaluated on the state the step leaves.
Render ==
  /\ groupSummaries' =
       IF d_mounted' THEN summariesOf(h_groups', h_expenses', h_settlements') ELSE <<>>
  /\ currencySummaries' =
       IF d_mounted' THEN currencyTotalsOf(<<>>, groupSummaries', userId') ELSE <<>>

\* cap bounds the number of expense and settlement rows.
LedgerOpen(cap) ==
  /\ ~d_mounted
  /\ userId # NULL
  /\ Len(db_expenses) + Len(db_settlements) < cap

\* services/expenses.ts createExpense(input).  dsOutcome is what the
\* datastore answers: "ok", "expenseError" (the expense insert fails) or
\* "splitsError" (the split insert fails after the expense was written).
createExpenseWith_insertsFirst(input, verdict, dsOutcome) ==
  IF dsOutcome = "expenseError"
    THEN UNCHANGED dbVars
    ELSE \E amountCents \in formatCurrency(input.amount),
            shareCents \in storedShares(input.splits) :
           /\ db_expenses' = Append(db_expenses,
                [id |-> db_nextId, group_id |-> input.groupId,
                 payer_id |-> input.payerId, amount |-> amountCents])
           /\ db_nextId' =
                IF verdict # "ok" \/ dsOutcome = "splitsError" THEN db_nextId + 1
                ELSE db_nextId + 1 + Len(input.splits)
           /\ db_expense_splits' =
                IF verdict # "ok" \/ dsOutcome = "splitsError" THEN db_expense_splits
                ELSE db_expense_splits \o
                     [i \in DOMAIN input.splits |->
                        [id |-> db_nextId + i,
                         expense_id |-> db_nextId,
                         member_id |-> input.splits[i].memberId,
                         share |-> shareCents[i]]]
           /\ UNCHANGED <<db_groups, db_group_members, db_settlements>>

createExpenseWith(input, verdict, dsOutcome) ==
  IF verdict # "ok" \/ dsOutcome = "expenseError"
    THEN UNCHANGED dbVars
    ELSE \E amountCents \in formatCurrency(input.amount),
            shareCents \in storedShares(input.splits) :
           /\ db_expenses' = Append(db_expenses,
                [id |-> db_nextId, group_id |-> input.groupId,
                 payer_id |-> input.payerId, amount |-> amountCents])
           /\ db_nextId' =
                IF dsOutcome = "splitsError" THEN db_nextId + 1
                ELSE db_nextId + 1 + Len(input.splits)
           /\ db_expense_splits' =
                IF dsOutcome = "splitsError" THEN db_expense_splits
                ELSE db_expense_splits \o
                     [i \in DOMAIN input.splits |->
                        [id |-> db_nextId + i,
                         expense_id |-> db_nextId,
                         member_id |-> input.splits[i].memberId,
                         share |-> shareCents[i]]]
           /\ UNCHANGED <<db_groups, db_group_members, db_settlements>>

createExpense(input, dsOutcome) ==
  \E verdict \in validateExpenseInput(input) :
    createExpenseWith(input, verdict, dsOutcome)

\* ExpensesPage handleCreate(values): deriveSplits, its two guards, then
\* the service.
HandleCreateExpense(cap) ==
  /\ LedgerOpen(cap)
  /\ \E group \in SeqToSet(fetchGroups(userId)) :
     \E payerId \in PayerChoices(group),
        participantIds \in ParticipantChoices(group),
        amount \in ExpenseAmounts,
        splitMode \in {"equal", "custom"},
        dsOutcome \in {"ok", "expenseError", "splitsError"} :
     \E customSplits \in CustomSplitChoices(amount, participantIds) :
       LET values == [groupId |-> group.id, payerId |-> payerId, amount |-> amount,
                      participantIds |-> participantIds, splitMode |-> splitMode,
                      customSplits |-> customSplits]
       IN  \E splits \in deriveSplits(values) :
             IF Len(splits) = 0 \/ values.amount <= 0
               THEN UNCHANGED dbVars
               ELSE createExpense([groupId |-> values.groupId, amount |-> values.amount,
                                   payerId |-> values.payerId, splits |-> splits],
                                  dsOutcome)
  /\ UNCHANGED <<userId, hookVars, memoVars, splitVars, netVars, svcVars, tolVars, lateVars>>

\* services/settlements.ts createSettlement(input).
createSettlement(input, dsOutcome) ==
  IF input.fromMemberId = input.toMemberId \/ dsOutcome = "error"
    THEN UNCHANGED dbVars
    ELSE \E amountCents \in formatCurrency(input.amount) :
           /\ db_settlements' = Append(db_settlements,
                [id |-> db_nextId, group_id |-> input.groupId,
                 from_member |-> input.fromMemberId, to_member |-> input.toMemberId,
                 amount |-> amountCents])
           /\ db_nextId' = db_nextId + 1
           /\ UNCHANGED <<db_groups, db_group_members, db_expenses, db_expense_splits>>

\* SettlementsPage handleCreate: a payment of any member (or of nobody
\* else: the service refuses from = to) to one of PayerChoices.
HandleCreateSettlement(cap) ==
  /\ LedgerOpen(cap)
  /\ \E group \in SeqToSet(fetchGroups(userId)) :
     \E fromMemberId \in SeqToSet(memberIdsOf(group)),
        toMemberId \in PayerChoices(group),
        amount \in SettlementAmounts,
        dsOutcome \in {"ok", "error"} :
       createSettlement([groupId |-> group.id, fromMemberId |-> fromMemberId,
                         toMemberId |-> toMemberId, amount |-> amount], dsOutcome)
  /\ UNCHANGED <<userId, hookVars, memoVars, splitVars, netVars, svcVars, tolVars, lateVars>>

\* The Groups page's handleRemoveMemberFromGroup behind its Remove button,
\* which is disabled for the owner and for the user (canRemove), then
\* services/groups.ts removeGroupMember.
HandleRemoveMember ==
  /\ ~d_mounted
  /\ userId # NULL
  /\ \E group \in SeqToSet(fetchGroups(userId)) :
     \E i \in DOMAIN group.group_members :
       LET member == group.group_members[i]
           isOwner == member.role = "owner" \/ member.member_id = group.owner_id
           isSelf == member.member_id = userId
           Kept(row) == ~(row.group_id = group.id /\ row.member_id = member.member_id)
       IN  /\ ~isOwner /\ ~isSelf
           /\ db_group_members' = Filter(db_group_members, Kept)
  /\ UNCHANGED <<db_groups, db_expenses, db_expense_splits, db_settlements, db_nextId>>
  /\ UNCHANGED <<userId, hookVars, memoVars, splitVars, netVars, svcVars, tolVars, lateVars>>

\* SupabaseProvider onAuthStateChange with a session of another user; the
\* Dashboard stays mounted and its hooks do not refetch.
AuthStateChange ==
  /\ \E nextUser \in SessionUsers \ {userId} : userId' = nextUser
  /\ UNCHANGED <<dbVars, hookVars, splitVars, netVars, svcVars, tolVars, lateVars>>
  /\ Render

\* DashboardPage mounts: the three hooks start with empty lists and each
\* starts its refresh.
MountDashboard ==
  /\ ~d_mounted
  /\ userId # NULL
  /\ d_mounted' = TRUE
  /\ d_pending' = {"groups", "expenses", "settlements"}
  /\ h_groups' = <<>> /\ h_expenses' = <<>> /\ h_settlements' = <<>>
  /\ UNCHANGED <<dbVars, userId, splitVars, netVars, svcVars, tolVars, lateVars>>
  /\ Render

\* useGroups refresh: fetchGroups resolves, setGroups(data).
RefreshGroupsDone ==
  /\ d_mounted /\ "groups" \in d_pending
  /\ h_groups' = fetchGroups(userId)
  /\ d_pending' = d_pending \ {"groups"}
  /\ UNCHANGED <<d_mounted, h_expenses, h_settlements, dbVars, userId, splitVars, netVars, svcVars, tolVars, lateVars>>
  /\ Render

\* useExpenses refresh: fetchExpenses resolves, setExpenses(data).
RefreshExpensesDone ==
  /\ d_mounted /\ "expenses" \in d_pending
  /\ h_expenses' = fetchExpenses(userId)
  /\ d_pending' = d_pending \ {"expenses"}
  /\ UNCHANGED <<d_mounted, h_groups, h_settlements, dbVars, userId, splitVars, netVars, svcVars, tolVars, lateVars>>
  /\ Render

\* useSettlements refresh: fetchSettlements resolves, setSettlements(data).
RefreshSettlementsDone ==
  /\ d_mounted /\ "settlements" \in d_pending
  /\ h_settlements' = fetchSettlements
  /\ d_pending' = d_pending \ {"settlements"}
  /\ UNCHANGED <<d_mounted, h_groups, h_expenses, dbVars, userId, splitVars, netVars, svcVars, tolVars, lateVars>>
  /\ Render

\* Navigation away from the Dashboard: the component and its hook state go.
UnmountDashboard ==
  /\ d_mounted
  /\ d_mounted' = FALSE
  /\ d_pending' = {}
  /\ h_groups' = <<>> /\ h_expenses' = <<>> /\ h_settlements' = <<>>
  /\ UNCHANGED <<dbVars, userId, splitVars, netVars, svcVars, tolVars, lateVars>>
  /\ Render

InitDash ==
  /\ InitIdleSplit
  /\ InitIdleNet
  /\ InitIdleDash
  /\ InitIdleTolerance
  /\ InitIdleLate

\* One user, a, signed in throughout.
NextDash ==
  \/ HandleCreateExpense(MaxLedgerRows)
  \/ HandleCreateSettlement(MaxLedgerRows)
  \/ HandleRemoveMember
  \/ MountDashboard
  \/ RefreshGroupsDone
  \/ RefreshExpensesDone
  \/ RefreshSettlementsDone
  \/ UnmountDashboard

SpecDash == InitDash /\ [][NextDash]_vars

\* ========================================================= SpecDashAuth
\* The same, with the session passing between a and b.
NextDashAuth ==
  \/ HandleCreateExpense(MaxSessionLedgerRows)
  \/ HandleCreateSettlement(MaxSessionLedgerRows)
  \/ HandleRemoveMember
  \/ AuthStateChange
  \/ MountDashboard
  \/ RefreshGroupsDone
  \/ RefreshExpensesDone
  \/ RefreshSettlementsDone
  \/ UnmountDashboard

SpecDashAuth == InitDash /\ [][NextDashAuth]_vars

\* ============================================================ SpecFrame
\* The same again, beside one call of computeEqualSplit on a list its
\* caller keeps.
FrameParticipants == {<<>>, <<"c", "b", "a">>}

InitFrame ==
  /\ sp_pc = "call"
  /\ sp_amount \in ExpenseAmounts
  /\ sp_participantIds \in FrameParticipants
  /\ sp_shares = <<>>
  /\ InitIdleNet
  /\ InitIdleDash
  /\ InitIdleTolerance
  /\ InitIdleLate

NextFrame ==
  \/ CallComputeEqualSplit
  \/ NextDashAuth

SpecFrame == InitFrame /\ [][NextFrame]_vars

\* ============================================================= SpecFold
\* One evaluation of the Dashboard's useMemo on lists as the hooks may
\* hand them over, an amount or a share possibly not a number.
FoldAmounts == {1000, NotANumber}

FoldShares == {500, 300, NotANumber}

FoldExpenseLists ==
  {<<[id |-> 1, group_id |-> "g1", payer_id |-> payer, amount |-> amount,
      expense_splits |-> <<[member_id |-> "a", share |-> shareA],
                           [member_id |-> "b", share |-> shareB]>>]>> :
     payer \in Profiles, amount \in FoldAmounts,
     shareA \in FoldShares, shareB \in FoldShares}

FoldSettlementLists ==
  {<<>>} \cup
  {<<[id |-> 2, group_id |-> "g1", from_member |-> "b", to_member |-> "a",
      amount |-> amount]>> : amount \in {333, NotANumber}}

InitFold ==
  /\ fold_pc = "call"
  /\ fold_expenses \in FoldExpenseLists
  /\ fold_settlements \in FoldSettlementLists
  /\ fold_result = NoResult
  /\ InitIdleImport
  /\ InitIdleNew
  /\ InitIdleSplit
  /\ InitIdleNet
  /\ InitIdleDash
  /\ InitIdleTolerance

\* The useMemo body has no throw and no early return: it always yields
\* the summaries.
CallFold ==
  /\ fold_pc = "call"
  /\ fold_result' =
       [thrown |-> FALSE,
        summaries |-> summariesOf(fetchGroups(userId), fold_expenses, fold_settlements)]
  /\ fold_pc' = "returned"
  /\ UNCHANGED <<fold_expenses, fold_settlements>>
  /\ UNCHANGED <<splitVars, netVars, dashVars, tolVars, impVars, newVars>>

NextFold == CallFold

SpecFold == InitFold /\ [][NextFold]_vars

\* ------------------------------------- components/expenses/ExpenseForm.tsx
\* expenseSchema with its superRefine, on the parsed form values: the sets
\* of issue messages it can raise (amounts and custom shares in mills).
expenseSchema(data) ==
  LET shapeIssues ==
        (IF data.amount <= 0 THEN {"Use a positive amount"} ELSE {})
        \cup (IF Len(data.participantIds) = 0
                THEN {"Select at least one participant"} ELSE {})
      negative == {i \in DOMAIN data.participantIds : data.customSplits[i] < 0}
      total == SumSeq([i \in DOMAIN data.participantIds |->
                         IF i \in negative THEN 0 ELSE data.customSplits[i]])
      entryIssues == IF negative # {} THEN {"Amounts must be zero or greater"} ELSE {}
  IN  IF data.splitMode # "custom" \/ data.amount <= 0
        THEN {shapeIssues}
        ELSE {shapeIssues \cup entryIssues \cup
                (IF Len(data.participantIds) # 0 /\ exceeds
                   THEN {"Custom splits need to add up to the expense total"}
                   ELSE {}) :
              exceeds \in exceedsTolerance(total, data.amount)}

\* What the form shows for a set of issues.
issueShown(issues) ==
  IF issues = {} THEN "ok"
  ELSE IF "Custom splits need to add up to the expense total" \in issues
    THEN "Custom splits need to add up to the expense total"
  ELSE CHOOSE message \in issues : TRUE

\* ======================================================== SpecTolerance
\* One validation of an amount and a list of shares, by createExpense, by
\* updateExpense or by the expense form.
\* Amounts validated, in mills.
ToleranceAmounts == {1000, 10000}

\* Participant lists validated.
ToleranceParticipants == {<<>>, <<"a">>, <<"a", "b">>, <<"a", "b", "c">>}

\* What the first share is off its equal share, in mills.
ToleranceDeltas == {-20, -10, 0, 10, 20}

ToleranceShares(amount, participantIds) ==
  IF participantIds = <<>> THEN {<<>>}
  ELSE {[i \in DOMAIN participantIds |->
           [memberId |-> participantIds[i],
            share |-> base[i] + (IF i = 1 THEN delta ELSE 0)]] :
        base \in computeEqualSplit(amount, participantIds), delta \in ToleranceDeltas}

InitTolerance ==
  /\ tol_pc = "call"
  /\ tol_validator \in {"createExpense", "updateExpense", "expenseSchema"}
  /\ tol_amount \in ToleranceAmounts
  /\ \E participantIds \in ToleranceParticipants :
       tol_shares \in ToleranceShares(tol_amount, participantIds)
  /\ tol_verdict = "none"
  /\ InitIdleSplit
  /\ InitIdleNet
  /\ InitIdleDash
  /\ InitIdleLate

\* The validation at the head of createExpense (98-104) and updateExpense
\* (158-164), or the form's schema on the same numbers typed as custom
\* splits.
CallValidate ==
  /\ tol_pc = "call"
  /\ IF tol_validator = "expenseSchema"
       THEN \E issues \in expenseSchema(
                   [amount |-> tol_amount,
                    participantIds |-> [i \in DOMAIN tol_shares |-> tol_shares[i].memberId],
                    splitMode |-> "custom",
                    customSplits |-> [i \in DOMAIN tol_shares |-> tol_shares[i].share]]) :
              tol_verdict' = issueShown(issues)
       ELSE \E verdict \in validateExpenseInput([amount |-> tol_amount,
                                                   splits |-> tol_shares]) :
              tol_verdict' = verdict
  /\ tol_pc' = "returned"
  /\ UNCHANGED <<tol_validator, tol_amount, tol_shares>>
  /\ UNCHANGED <<splitVars, netVars, dashVars, lateVars>>

NextTolerance == CallValidate

SpecTolerance == InitTolerance /\ [][NextTolerance]_vars

\* =========================================================== SpecLedger
\* The services as their callers use them, with what each call shows its
\* caller, and the expense form's validation.
\* services/expenses.ts updateExpense(input).  dsOutcome: "ok",
\* "expenseError" (the update fails), "deleteError" (the delete of the old
\* splits fails after the expense was updated) or "splitsError" (the insert
\* of the new splits fails after the old ones were deleted).  .single()
\* makes the update an error when no row has the id.
updateExpenseWith_keepsOldSplits(input, verdict, dsOutcome) ==
  LET exists == \E k \in DOMAIN db_expenses : db_expenses[k].id = input.id
  IN  IF verdict # "ok" \/ dsOutcome = "expenseError" \/ ~exists
        THEN UNCHANGED dbVars
        ELSE \E amountCents \in formatCurrency(input.amount),
                shareCents \in storedShares(input.splits) :
               /\ db_expenses' =
                    [k \in DOMAIN db_expenses |->
                       IF db_expenses[k].id = input.id
                         THEN [id |-> input.id, group_id |-> input.groupId,
                               payer_id |-> input.payerId, amount |-> amountCents]
                         ELSE db_expenses[k]]
               /\ db_expense_splits' =
                    IF dsOutcome # "ok" THEN db_expense_splits
                    ELSE db_expense_splits \o
                         [i \in DOMAIN input.splits |->
                            [id |-> db_nextId + i - 1,
                             expense_id |-> input.id,
                             member_id |-> input.splits[i].memberId,
                             share |-> shareCents[i]]]
               /\ db_nextId' =
                    IF dsOutcome = "ok" THEN db_nextId + Len(input.splits)
                    ELSE db_nextId
               /\ UNCHANGED <<db_groups, db_group_members, db_settlements>>

updateExpenseWith(input, verdict, dsOutcome) ==
  LET exists == \E k \in DOMAIN db_expenses : db_expenses[k].id = input.id
      OfOthers(row) == row.expense_id # input.id
  IN  IF verdict # "ok" \/ dsOutcome = "expenseError" \/ ~exists
        THEN UNCHANGED dbVars
        ELSE \E amountCents \in formatCurrency(input.amount),
                shareCents \in storedShares(input.splits) :
               /\ db_expenses' =
                    [k \in DOMAIN db_expenses |->
                       IF db_expenses[k].id = input.id
                         THEN [id |-> input.id, group_id |-> input.groupId,
                               payer_id |-> input.payerId, amount |-> amountCents]
                         ELSE db_expenses[k]]
               /\ db_expense_splits' =
                    IF dsOutcome = "deleteError" THEN db_expense_splits
                    ELSE IF dsOutcome = "splitsError"
                      THEN Filter(db_expense_splits, OfOthers)
                    ELSE Filter(db_expense_splits, OfOthers) \o
                         [i \in DOMAIN input.splits |->
                            [id |-> db_nextId + i - 1,
                             expense_id |-> input.id,
                             member_id |-> input.splits[i].memberId,
                             share |-> shareCents[i]]]
               /\ db_nextId' =
                    IF dsOutcome = "ok" THEN db_nextId + Len(input.splits)
                    ELSE db_nextId
               /\ UNCHANGED <<db_groups, db_group_members, db_settlements>>

updateExpense(input, dsOutcome) ==
  \E verdict \in validateExpenseInput(input) :
    updateExpenseWith(input, verdict, dsOutcome)

\* services/expenses.ts deleteExpense(id): the expense row goes, and its
\* split rows with it.
deleteExpense(id, dsOutcome) ==
  LET KeptExpense(row) == row.id # id
      KeptSplit(row) == row.expense_id # id
  IN  IF dsOutcome = "error"
        THEN UNCHANGED dbVars
        ELSE /\ db_expenses' = Filter(db_expenses, KeptExpense)
             /\ db_expense_splits' = Filter(db_expense_splits, KeptSplit)
             /\ UNCHANGED <<db_groups, db_group_members, db_settlements, db_nextId>>

\* The settlements table (supabase/schema.sql), as the specification
\* describes the store: it keeps the rows it is given and validates
\* nothing, the invariants being the writers' to check.
settlementsTableAccepts(row) == TRUE

\* services/settlements.ts updateSettlement(input): only the fields given
\* are written (fromMemberId, toMemberId are NULL when absent, amount is
\* given when hasAmount).  Nothing is validated.
updateSettlement(input, dsOutcome) ==
  LET exists == \E k \in DOMAIN db_settlements : db_settlements[k].id = input.id
      updated(row, amountCents) ==
        [id |-> input.id,
         group_id |-> row.group_id,
         from_member |-> IF input.fromMemberId # NULL THEN input.fromMemberId
                         ELSE row.from_member,
         to_member |-> IF input.toMemberId # NULL THEN input.toMemberId
                       ELSE row.to_member,
         amount |-> IF input.hasAmount THEN amountCents ELSE row.amount]
  IN  IF dsOutcome = "error" \/ ~exists
        THEN UNCHANGED dbVars
        ELSE \E amountCents \in formatCurrency(input.amount) :
               IF \E k \in DOMAIN db_settlements :
                    /\ db_settlements[k].id = input.id
                    /\ ~settlementsTableAccepts(updated(db_settlements[k], amountCents))
                 THEN UNCHANGED dbVars
                 ELSE /\ db_settlements' =
                           [k \in DOMAIN db_settlements |->
                              IF db_settlements[k].id = input.id
                                THEN updated(db_settlements[k], amountCents)
                                ELSE db_settlements[k]]
                      /\ UNCHANGED <<db_groups, db_group_members, db_expenses,
                                     db_expense_splits, db_nextId>>

\* services/settlements.ts deleteSettlement(id).
deleteSettlement(id, dsOutcome) ==
  LET Kept(row) == row.id # id
  IN  IF dsOutcome = "error"
        THEN UNCHANGED dbVars
        ELSE /\ db_settlements' = Filter(db_settlements, Kept)
             /\ UNCHANGED <<db_groups, db_group_members, db_expenses,
                            db_expense_splits, db_nextId>>

\* upsert(rows, { onConflict: 'id' }): a row with the id is replaced where
\* it is, another is added.
RECURSIVE upsertById(_, _)
upsertById(rows, newRows) ==
  IF newRows = <<>> THEN rows
  ELSE LET new == Head(newRows)
           merged == IF \E k \in DOMAIN rows : rows[k].id = new.id
                       THEN [k \in DOMAIN rows |->
                               IF rows[k].id = new.id THEN new ELSE rows[k]]
                       ELSE Append(rows, new)
       IN  upsertById(merged, Tail(newRows))

\* upsert(group_members, { onConflict: 'group_id,member_id' })
RECURSIVE upsertMembers(_, _)
upsertMembers(rows, newRows) ==
  IF newRows = <<>> THEN rows
  ELSE LET new == Head(newRows)
           Same(row) == row.group_id = new.group_id /\ row.member_id = new.member_id
           merged == IF \E k \in DOMAIN rows : Same(rows[k])
                       THEN [k \in DOMAIN rows |-> IF Same(rows[k]) THEN new ELSE rows[k]]
                       ELSE Append(rows, new)
       IN  upsertMembers(merged, Tail(newRows))

\* expenses.flatMap((expense) => expense.expense_splits ?? [])
RECURSIVE flatSplits(_)
flatSplits(expenses) ==
  IF expenses = <<>> THEN <<>>
  ELSE Head(expenses).expense_splits \o flatSplits(Tail(expenses))

\* The body of importUserData's loop for one group of the payload, on the
\* tables db.  failing names the datastore call that fails, or is "ok".
importGroup_noOwnerCheck(db, group, uid, failing) ==
  LET groupRecord == [id |-> group.id, owner_id |-> group.owner_id,
                      currency |-> group.currency]
      expenseRecords ==
        [k \in DOMAIN group.expenses |->
           [id |-> group.expenses[k].id, group_id |-> group.expenses[k].group_id,
            payer_id |-> group.expenses[k].payer_id,
            amount |-> group.expenses[k].amount]]
      d1 == [db EXCEPT !.groups = upsertById(@, <<groupRecord>>)]
      d2 == IF group.group_members # <<>> /\ failing # "membersError"
              THEN [d1 EXCEPT !.group_members = upsertMembers(@, group.group_members)]
              ELSE d1
      d3 == IF group.expenses # <<>> /\ failing # "expenseError"
              THEN [d2 EXCEPT !.expenses = upsertById(@, expenseRecords)]
              ELSE d2
  IN  IF failing = "groupError" THEN db ELSE d3

importGroup(db, group, uid, failing) ==
  LET groupRecord == [id |-> group.id, owner_id |-> group.owner_id,
                      currency |-> group.currency]
      expenseRecords ==
        [k \in DOMAIN group.expenses |->
           [id |-> group.expenses[k].id, group_id |-> group.expenses[k].group_id,
            payer_id |-> group.expenses[k].payer_id,
            amount |-> group.expenses[k].amount]]
      splits == flatSplits(group.expenses)
      d1 == [db EXCEPT !.groups = upsertById(@, <<groupRecord>>)]
      d2 == IF group.group_members # <<>> /\ failing # "membersError"
              THEN [d1 EXCEPT !.group_members = upsertMembers(@, group.group_members)]
              ELSE d1
      d3 == IF group.expenses # <<>> /\ failing # "expenseError"
              THEN [d2 EXCEPT !.expenses = upsertById(@, expenseRecords)]
              ELSE d2
      d4 == IF group.expenses # <<>> /\ failing \notin {"expenseError", "splitError"}
               /\ splits # <<>>
              THEN [d3 EXCEPT !.expense_splits = upsertById(@, splits)]
              ELSE d3
      d5 == IF group.settlements # <<>> /\ failing # "settlementError"
               /\ \A k \in DOMAIN group.settlements :
                    settlementsTableAccepts(group.settlements[k])
              THEN [d4 EXCEPT !.settlements = upsertById(@, group.settlements)]
              ELSE d4
  IN  IF group.owner_id # uid \/ failing = "groupError" THEN db ELSE d5

RECURSIVE importGroups(_, _, _, _)
importGroups(db, groups, uid, failing) ==
  IF groups = <<>> THEN db
  ELSE importGroups(importGroup(db, Head(groups), uid, failing), Tail(groups), uid, failing)

\* services/expenses.ts importUserData(payload) for the signed-in user.
importUserData(payload, failing) ==
  LET before == [groups |-> db_groups, group_members |-> db_group_members,
                 expenses |-> db_expenses, expense_splits |-> db_expense_splits,
                 settlements |-> db_settlements]
      after == importGroups(before, payload.groups, userId, failing)
  IN  /\ db_groups' = after.groups
      /\ db_group_members' = after.group_members
      /\ db_expenses' = after.expenses
      /\ db_expense_splits' = after.expense_splits
      /\ db_settlements' = after.settlements
      /\ UNCHANGED db_nextId

\* ------------------------------------------------------ the calls drawn
\* Amounts passed to the expense services, in mills.
ServiceAmounts == {1000, 10000}

\* Participant lists passed to the expense services.
ServiceParticipants == {<<>>, <<"a", "b">>}

\* What the first share is off its equal share, in mills.
ServiceDeltas == {0, 20}

\* The share lists passed: the equal shares with the first one moved.
ServiceShares(amount, participantIds) ==
  IF participantIds = <<>> THEN {<<>>}
  ELSE {[i \in DOMAIN participantIds |-> base[i] + (IF i = 1 THEN delta ELSE 0)] :
        base \in computeEqualSplit(amount, participantIds), delta \in ServiceDeltas}

ServiceSplits(amount, participantIds) ==
  {[i \in DOMAIN participantIds |-> [memberId |-> participantIds[i], share |-> shares[i]]] :
   shares \in ServiceShares(amount, participantIds)}

\* The ids an imported backup carries.
BackupExpenseId == 101
BackupSettlementId == 102
BackupSplitIds == <<103, 104>>

\* A backup of group gid holding one expense of 10.00 paid by a, split
\* between a and b with the shares given (in cents), and one settlement
\* of 3.33 from a to toMember.
BackupGroup(gid, shares, toMember) ==
  LET OfGroup(row) == row.group_id = gid
      IsGroup(row) == row.id = gid
  IN  [id |-> gid,
       owner_id |-> Head(Filter(InitialGroups, IsGroup)).owner_id,
       currency |-> Head(Filter(InitialGroups, IsGroup)).currency,
       group_members |-> Filter(InitialGroupMembers, OfGroup),
       expenses |->
         <<[id |-> BackupExpenseId, group_id |-> gid, payer_id |-> "a", amount |-> 1000,
            expense_splits |->
              <<[id |-> BackupSplitIds[1], expense_id |-> BackupExpenseId,
                 member_id |-> "a", share |-> shares[1]],
                [id |-> BackupSplitIds[2], expense_id |-> BackupExpenseId,
                 member_id |-> "b", share |-> shares[2]]>>]>>,
       settlements |->
         <<[id |-> BackupSettlementId, group_id |-> gid, from_member |-> "a",
            to_member |-> toMember, amount |-> 333]>>]

\* The payloads imported: a backup of a's own group g1 as the services
\* would have written it, the same edited by hand, and a backup of b's
\* group g2.
BackupPayloads ==
  {[groups |-> <<BackupGroup("g1", <<500, 500>>, "b")>>],
   [groups |-> <<BackupGroup("g1", <<500, 300>>, "a")>>],
   [groups |-> <<BackupGroup("g2", <<500, 500>>, "b")>>]}

\* The changes asked of updateSettlement: none, another payer, another
\* receiver, another amount.
SettlementChanges ==
  {[fromMemberId |-> NULL, toMemberId |-> NULL, amount |-> 0, hasAmount |-> FALSE],
   [fromMemberId |-> "a", toMemberId |-> NULL, amount |-> 0, hasAmount |-> FALSE],
   [fromMemberId |-> "b", toMemberId |-> NULL, amount |-> 0, hasAmount |-> FALSE],
   [fromMemberId |-> NULL, toMemberId |-> "b", amount |-> 0, hasAmount |-> FALSE],
   [fromMemberId |-> NULL, toMemberId |-> NULL, amount |-> 5000, hasAmount |-> TRUE]}

\* What the caller of an expense service sees.
expenseResult(verdict, dsOutcome, found) ==
  IF verdict # "ok" THEN verdict
  ELSE IF dsOutcome # "ok" \/ ~found THEN "datastoreError"
  ELSE "ok"

\* What the caller of a settlement service sees.
settlementResult(same, dsOutcome, found) ==
  IF same THEN "Members must be different for a settlement"
  ELSE IF dsOutcome # "ok" \/ ~found THEN "datastoreError"
  ELSE "ok"

ExpenseIds == {db_expenses[k].id : k \in DOMAIN db_expenses}

SettlementIds == {db_settlements[k].id : k \in DOMAIN db_settlements}

\* The services are called from the pages, so with a user signed in; at
\* most MaxServiceCalls calls are followed.
ServiceOpen ==
  /\ ~d_mounted
  /\ userId # NULL
  /\ svc_count < MaxServiceCalls
  /\ svc_count' = svc_count + 1

CallCreateExpense ==
  /\ ServiceOpen
  /\ \E amount \in ServiceAmounts, participantIds \in ServiceParticipants,
        dsOutcome \in {"ok", "expenseError", "splitsError"} :
     \E splits \in ServiceSplits(amount, participantIds) :
       LET input == [groupId |-> "g1", amount |-> amount, payerId |-> "a",
                     splits |-> splits]
       IN  \E verdict \in validateExpenseInput(input) :
             /\ createExpenseWith(input, verdict, dsOutcome)
             /\ svc_call' = Observed("createExpense", amount, Len(splits),
                                     totalSplitOf(splits) - amount, FALSE,
                                     expenseResult(verdict, dsOutcome, TRUE))
  /\ UNCHANGED <<userId, hookVars, memoVars, splitVars, netVars, tolVars, lateVars>>

CallUpdateExpense ==
  /\ ServiceOpen
  /\ \E id \in ExpenseIds, amount \in ServiceAmounts,
        participantIds \in ServiceParticipants,
        dsOutcome \in {"ok", "expenseError", "deleteError", "splitsError"} :
     \E splits \in ServiceSplits(amount, participantIds) :
       LET input == [id |-> id, groupId |-> "g1", amount |-> amount, payerId |-> "a",
                     splits |-> splits]
       IN  \E verdict \in validateExpenseInput(input) :
             /\ updateExpenseWith(input, verdict, dsOutcome)
             /\ svc_input' = input
             /\ svc_call' = Observed("updateExpense", amount, Len(splits),
                                     totalSplitOf(splits) - amount, FALSE,
                                     expenseResult(verdict, dsOutcome, TRUE))
  /\ UNCHANGED <<userId, hookVars, memoVars, splitVars, netVars, tolVars, foldVars,
                 imp_result, newVars>>

CallDeleteExpense ==
  /\ ServiceOpen
  /\ \E id \in ExpenseIds, dsOutcome \in {"ok", "error"} :
       /\ deleteExpense(id, dsOutcome)
       /\ svc_call' = Observed("deleteExpense", 0, 0, 0, FALSE,
                               expenseResult("ok", dsOutcome, TRUE))
  /\ UNCHANGED <<userId, hookVars, memoVars, splitVars, netVars, tolVars, lateVars>>

CallCreateSettlement ==
  /\ ServiceOpen
  /\ \E fromMemberId \in {"a", "b"}, toMemberId \in {"a", "b"},
        amount \in SettlementAmounts, dsOutcome \in {"ok", "error"} :
       /\ createSettlement([groupId |-> "g1", fromMemberId |-> fromMemberId,
                            toMemberId |-> toMemberId, amount |-> amount], dsOutcome)
       /\ svc_call' = Observed("createSettlement", amount, 0, 0,
                               fromMemberId = toMemberId,
                               settlementResult(fromMemberId = toMemberId, dsOutcome, TRUE))
  /\ UNCHANGED <<userId, hookVars, memoVars, splitVars, netVars, tolVars, lateVars>>

CallUpdateSettlement ==
  /\ ServiceOpen
  /\ \E id \in SettlementIds, changes \in SettlementChanges,
        dsOutcome \in {"ok", "error"} :
       LET row == CHOOSE r \in SeqToSet(db_settlements) : r.id = id
           from == IF changes.fromMemberId # NULL THEN changes.fromMemberId
                   ELSE row.from_member
           to == IF changes.toMemberId # NULL THEN changes.toMemberId
                 ELSE row.to_member
       IN  /\ updateSettlement([id |-> id] @@ changes, dsOutcome)
           /\ svc_call' = Observed("updateSettlement", changes.amount, 0, 0, from = to,
                                   settlementResult(FALSE, dsOutcome, TRUE))
  /\ UNCHANGED <<userId, hookVars, memoVars, splitVars, netVars, tolVars, lateVars>>

CallDeleteSettlement ==
  /\ ServiceOpen
  /\ \E id \in SettlementIds, dsOutcome \in {"ok", "error"} :
       /\ deleteSettlement(id, dsOutcome)
       /\ svc_call' = Observed("deleteSettlement", 0, 0, 0, FALSE,
                               settlementResult(FALSE, dsOutcome, TRUE))
  /\ UNCHANGED <<userId, hookVars, memoVars, splitVars, netVars, tolVars, lateVars>>

\* SettingsPage: a backup file is imported.  result.errors is not empty
\* when a datastore call failed.
CallImportUserData ==
  /\ ServiceOpen
  /\ \E payload \in BackupPayloads,
        failing \in {"ok", "groupError", "membersError", "expenseError",
                     "splitError", "settlementError"} :
       /\ importUserData(payload, failing)
       /\ svc_call' = Observed("importUserData", 0, 0, 0, FALSE,
                               IF failing = "ok" \/ payload.groups[1].owner_id # userId
                                 THEN "ok" ELSE "datastoreError")
  /\ UNCHANGED <<userId, hookVars, memoVars, splitVars, netVars, tolVars, lateVars>>

\* ExpensesPage handleCreate(values) and handleUpdate(values), called with
\* any values: deriveSplits, the two guards, then the service; the catch
\* shows the message of whatever was thrown.
HandleExpenseSubmit ==
  /\ ServiceOpen
  /\ \E handler \in {"handleCreate", "handleUpdate"},
        amount \in {0, 10000}, participantIds \in ServiceParticipants,
        splitMode \in {"equal", "custom"}, dsOutcome \in {"ok", "expenseError"} :
     \E customSplits \in ServiceShares(amount, participantIds) :
       LET values == [groupId |-> "g1", payerId |-> "a", amount |-> amount,
                      participantIds |-> participantIds, splitMode |-> splitMode,
                      customSplits |-> customSplits]
           Seen(count, diff, verdict) ==
             Observed(handler, amount, count, diff, FALSE, verdict)
       IN  /\ handler = "handleUpdate" => ExpenseIds # {}
           /\ \E splits \in deriveSplits(values) :
                 IF Len(splits) = 0
                   THEN /\ UNCHANGED dbVars
                        /\ svc_call' = Seen(Len(participantIds), 0,
                             "Unable to calculate participant splits. Check the amount and selected members.")
                 ELSE IF values.amount <= 0
                   THEN /\ UNCHANGED dbVars
                        /\ svc_call' = Seen(Len(participantIds), 0,
                             "Enter a positive amount for this expense.")
                 ELSE LET input == [groupId |-> values.groupId, amount |-> values.amount,
                                    payerId |-> values.payerId, splits |-> splits]
                      IN  \E verdict \in validateExpenseInput(input) :
                            /\ svc_call' = Seen(Len(participantIds),
                                                totalSplitOf(splits) - amount,
                                                expenseResult(verdict, dsOutcome, TRUE))
                            /\ IF handler = "handleCreate"
                                 THEN createExpenseWith(input, verdict, dsOutcome)
                                 ELSE \E id \in ExpenseIds :
                                        updateExpenseWith([id |-> id] @@ input,
                                                          verdict, dsOutcome)
  /\ UNCHANGED <<userId, hookVars, memoVars, splitVars, netVars, tolVars, lateVars>>

InitLedger == InitDash

NextLedger ==
  \/ CallCreateExpense
  \/ CallUpdateExpense
  \/ CallDeleteExpense
  \/ CallCreateSettlement
  \/ CallUpdateSettlement
  \/ CallDeleteSettlement
  \/ CallImportUserData
  \/ HandleExpenseSubmit

SpecLedger == InitLedger /\ [][NextLedger]_vars

\* ========================================================= SpecOptimize
\* script.js (the legacy app): one call of optimizeSettlements(balances)
\* on the pairwise debts of a group, balances[debtor][creditor] = amount.
\* Amounts are JavaScript numbers: whole units, or the value Infinity that
\* the += of calculateDetailedBalances (745) produces when a debt passes
\* Number.MAX_VALUE.  calculateDetailedBalances gives every member named
\* in a split a key, in the order of group.members, and the payer is one
\* of them.
LegacyMembers == <<"a", "b", "c", "d">>

Infinity == 1000000

NaN == 2000000

jsNeg(x) == IF x = NaN THEN NaN ELSE -x

jsAdd(x, y) ==
  IF x = NaN \/ y = NaN THEN NaN
  ELSE IF x = Infinity THEN (IF y = -Infinity THEN NaN ELSE Infinity)
  ELSE IF x = -Infinity THEN (IF y = Infinity THEN NaN ELSE -Infinity)
  ELSE IF y = Infinity \/ y = -Infinity THEN y
  ELSE x + y

jsLess(x, y) == x # NaN /\ y # NaN /\ x < y

jsAbs(x) == IF x = NaN THEN NaN ELSE Abs(x)

jsMin(x, y) == IF x = NaN \/ y = NaN THEN NaN ELSE IF x < y THEN x ELSE y

RECURSIVE jsSum(_)
jsSum(seq) == IF seq = <<>> THEN 0 ELSE jsAdd(Head(seq), jsSum(Tail(seq)))

LegacyAmounts == {3, 5, Infinity}

\* What one member owes: nothing, or one amount to one other member.
LegacyDebtsOf(member) ==
  {<<>>} \cup
  {<<[creditor |-> LegacyMembers[k], amount |-> amount]>> :
     k \in {j \in DOMAIN LegacyMembers : LegacyMembers[j] # member},
     amount \in LegacyAmounts}

LegacyBalances ==
  {balances \in [DOMAIN LegacyMembers -> UNION {LegacyDebtsOf(LegacyMembers[k]) :
                                                  k \in DOMAIN LegacyMembers}] :
     \A k \in DOMAIN LegacyMembers : balances[k] \in LegacyDebtsOf(LegacyMembers[k])}

\* netBalances[person] after the two forEach loops (762-772).
netBalanceOf(balances, person) ==
  jsSum([k \in DOMAIN balances |->
           jsSum([e \in DOMAIN balances[k] |->
                    jsAdd(IF balances[k][e].creditor = person
                            THEN balances[k][e].amount ELSE 0,
                          IF LegacyMembers[k] = person
                            THEN jsNeg(balances[k][e].amount) ELSE 0)])])

\* Object.entries(netBalances), in key order.
netBalanceEntries(balances) ==
  [k \in DOMAIN balances |->
     [person |-> LegacyMembers[k], balance |-> netBalanceOf(balances, LegacyMembers[k])]]

IsDebtor(entry) == jsLess(entry.balance, 0)

IsCreditor(entry) == jsLess(0, entry.balance)

RECURSIVE selectEntries(_, _)
selectEntries(entries, wantDebtors) ==
  IF entries = <<>> THEN <<>>
  ELSE IF (wantDebtors /\ IsDebtor(Head(entries)))
          \/ (~wantDebtors /\ IsCreditor(Head(entries)))
    THEN <<Head(entries)>> \o selectEntries(Tail(entries), wantDebtors)
    ELSE selectEntries(Tail(entries), wantDebtors)

InitOptimize ==
  /\ opt_pc = "call"
  /\ opt_balances \in LegacyBalances
  /\ opt_debtors = <<>> /\ opt_creditors = <<>>
  /\ opt_i = 0 /\ opt_j = 0 /\ opt_settlements = <<>>
  /\ InitIdleSplit
  /\ InitIdleNet
  /\ InitIdleDash
  /\ InitIdleTolerance
  /\ InitIdleFold
  /\ InitIdleImport
  /\ InitIdleHook

\* Lines 759-778: the net balances, the debtors and the creditors.
OptNetBalances ==
  /\ opt_pc = "call"
  /\ opt_debtors' = selectEntries(netBalanceEntries(opt_balances), TRUE)
  /\ opt_creditors' = selectEntries(netBalanceEntries(opt_balances), FALSE)
  /\ opt_pc' = "loop"
  /\ UNCHANGED <<opt_balances, opt_i, opt_j, opt_settlements>>
  /\ UNCHANGED <<splitVars, netVars, dashVars, tolVars, foldVars, impVars, uhVars>>

settleAmountOf(debtor, creditor) == jsMin(jsAbs(debtor.balance), creditor.balance)

\* One iteration of the while loop (779-795); opt_i and opt_j are 0-based.
OptSettle ==
  /\ opt_pc = "loop"
  /\ Len(opt_settlements) < MaxIterations
  /\ opt_i < Len(opt_debtors) /\ opt_j < Len(opt_creditors)
  /\ LET debtor == opt_debtors[opt_i + 1]
         creditor == opt_creditors[opt_j + 1]
         settleAmount == settleAmountOf(debtor, creditor)
         debtorLeft == jsAdd(debtor.balance, settleAmount)
         creditorLeft == jsAdd(creditor.balance, jsNeg(settleAmount))
     IN  /\ opt_settlements' = Append(opt_settlements,
                [from |-> debtor.person, to |-> creditor.person, amount |-> settleAmount])
         /\ opt_debtors' = [opt_debtors EXCEPT ![opt_i + 1].balance = debtorLeft]
         /\ opt_creditors' = [opt_creditors EXCEPT ![opt_j + 1].balance = creditorLeft]
         /\ opt_i' = IF debtorLeft = 0 THEN opt_i + 1 ELSE opt_i
         /\ opt_j' = IF creditorLeft = 0 THEN opt_j + 1 ELSE opt_j
  /\ UNCHANGED <<opt_pc, opt_balances>>
  /\ UNCHANGED <<splitVars, netVars, dashVars, tolVars, foldVars, impVars, uhVars>>

\* The loop condition fails: return settlements (797).
OptReturn ==
  /\ opt_pc = "loop"
  /\ ~(opt_i < Len(opt_debtors) /\ opt_j < Len(opt_creditors))
  /\ opt_pc' = "returned"
  /\ UNCHANGED <<opt_balances, opt_debtors, opt_creditors, opt_i, opt_j, opt_settlements>>
  /\ UNCHANGED <<splitVars, netVars, dashVars, tolVars, foldVars, impVars, uhVars>>

NextOptimize ==
  \/ OptNetBalances
  \/ OptSettle
  \/ OptReturn

SpecOptimize == InitOptimize /\ [][NextOptimize]_vars

\* ============================================================ SpecHooks
\* hooks/useExpenses.ts, hooks/useSettlements.ts, hooks/useGroups.ts: one
\* mounted hook whose asynchronous operations overlap.  An operation is
\* [kind, phase, filters]: phase "service" while its create/update/delete
\* service call is awaited, "fetch" while the fetch of its refresh is
\* awaited, then "done" or "failed".  The table is the number of its rows;
\* the list in state records the filters it was fetched for.
HookNames == {"useExpenses", "useSettlements", "useGroups"}

\* useGroups.refresh takes no filters.
HookFilters(hook) == IF hook = "useGroups" THEN {NoFilters} ELSE {NoFilters, "g1", "g2"}

MutationKinds == {"create", "update", "delete"}

InFlight == {k \in DOMAIN uh_ops : uh_ops[k].phase \in {"service", "fetch"}}

\* The mount: isLoading starts true and the effect calls
\* refresh(initialFilters).
InitHooks ==
  /\ uh_hook \in HookNames
  /\ uh_filtersRef \in HookFilters(uh_hook)
  /\ uh_ops = <<[kind |-> "refresh", phase |-> "fetch", filters |-> uh_filtersRef]>>
  /\ uh_rows = 1
  /\ uh_list = NoList
  /\ uh_isLoading = TRUE
  /\ uh_error = "null"
  /\ InitIdleSplit
  /\ InitIdleNet
  /\ InitIdleDash
  /\ InitIdleTolerance
  /\ InitIdleFold
  /\ InitIdleImport
  /\ InitIdleOptimize

\* refresh up to its await: setIsLoading(true), setError(null),
\* nextFilters = filters ?? filtersRef.current, filtersRef.current =
\* nextFilters, fetch started.
refreshStarts(ops, kind, filters) ==
  Append(ops, [kind |-> kind, phase |-> "fetch", filters |-> filters])

\* refresh(filters) or refresh() called by the page.
CallRefresh ==
  /\ Len(uh_ops) < MaxHookOps
  /\ \E passed \in BOOLEAN : \E filters \in HookFilters(uh_hook) :
       LET nextFilters == IF passed THEN filters ELSE uh_filtersRef
       IN  /\ passed \/ filters = NoFilters
           /\ uh_filtersRef' = nextFilters
           /\ uh_ops' = refreshStarts(uh_ops, "refresh", nextFilters)
  /\ uh_isLoading' = TRUE
  /\ uh_error' = "null"
  /\ UNCHANGED <<uh_hook, uh_rows, uh_list>>
  /\ UNCHANGED <<splitVars, netVars, dashVars, tolVars, foldVars, impVars, optVars>>

\* handleCreate / handleUpdate / handleDelete up to the await of the
\* service call.
CallMutation ==
  /\ Len(uh_ops) < MaxHookOps
  /\ \E kind \in MutationKinds :
       uh_ops' = Append(uh_ops, [kind |-> kind, phase |-> "service", filters |-> NoFilters])
  /\ uh_isLoading' = TRUE
  /\ uh_error' = "null"
  /\ UNCHANGED <<uh_hook, uh_filtersRef, uh_rows, uh_list>>
  /\ UNCHANGED <<splitVars, netVars, dashVars, tolVars, foldVars, impVars, optVars>>

rowsAfter(kind, rows) ==
  IF kind = "create" THEN rows + 1
  ELSE IF kind = "delete" /\ rows > 0 THEN rows - 1
  ELSE rows

\* The service call resolves; the handler goes on to `await refresh()`,
\* which runs up to its own await.
ServiceResolves ==
  /\ \E k \in DOMAIN uh_ops :
       /\ uh_ops[k].phase = "service"
       /\ uh_rows' = rowsAfter(uh_ops[k].kind, uh_rows)
       /\ uh_ops' = [uh_ops EXCEPT ![k].phase = "fetch", ![k].filters = uh_filtersRef]
  /\ uh_isLoading' = TRUE
  /\ uh_error' = "null"
  /\ UNCHANGED <<uh_hook, uh_filtersRef, uh_list>>
  /\ UNCHANGED <<splitVars, netVars, dashVars, tolVars, foldVars, impVars, optVars>>

\* The service call rejects: catch sets the error, finally clears
\* isLoading, the error is rethrown.
ServiceRejects ==
  /\ \E k \in DOMAIN uh_ops :
       /\ uh_ops[k].phase = "service"
       /\ uh_ops' = [uh_ops EXCEPT ![k].phase = "failed"]
  /\ uh_error' = "error"
  /\ uh_isLoading' = FALSE
  /\ UNCHANGED <<uh_hook, uh_filtersRef, uh_rows, uh_list>>
  /\ UNCHANGED <<splitVars, netVars, dashVars, tolVars, foldVars, impVars, optVars>>

\* The fetch of a refresh resolves: the list is set, finally clears
\* isLoading; a handler that awaited the refresh returns through its
\* own finally.
FetchResolves ==
  /\ \E k \in DOMAIN uh_ops :
       /\ uh_ops[k].phase = "fetch"
       /\ uh_list' = [filters |-> uh_ops[k].filters, rows |-> uh_rows]
       /\ uh_ops' = [uh_ops EXCEPT ![k].phase = "done"]
       /\ uh_isLoading' = FALSE
  /\ UNCHANGED <<uh_hook, uh_filtersRef, uh_rows, uh_error>>
  /\ UNCHANGED <<splitVars, netVars, dashVars, tolVars, foldVars, impVars, optVars>>

\* The fetch rejects: refresh catches, sets the error and clears
\* isLoading; it does not rethrow.
FetchRejects ==
  /\ \E k \in DOMAIN uh_ops :
       /\ uh_ops[k].phase = "fetch"
       /\ uh_ops' = [uh_ops EXCEPT ![k].phase = "failed"]
       /\ uh_isLoading' = FALSE
  /\ uh_error' = "error"
  /\ UNCHANGED <<uh_hook, uh_filtersRef, uh_rows, uh_list>>
  /\ UNCHANGED <<splitVars, netVars, dashVars, tolVars, foldVars, impVars, optVars>>

NextHooks ==
  \/ CallRefresh
  \/ CallMutation
  \/ ServiceResolves
  \/ ServiceRejects
  \/ FetchResolves
  \/ FetchRejects

SpecHooks == InitHooks /\ [][NextHooks]_vars

\* =========================================================== SpecGroups
\* The group services and the restore of a backup, called from the Groups
\* and Settings pages.
\* ------------------------------------------------- services/groups.ts
\* The ids the datastore gives to new groups, in the order given.
NewGroupIds == <<"g4", "g5", "g6", "g7">>

freshGroupId ==
  LET used == {db_groups[k].id : k \in DOMAIN db_groups}
      free == {i \in DOMAIN NewGroupIds : NewGroupIds[i] \notin used}
  IN  NewGroupIds[CHOOSE i \in free : \A j \in free : i <= j]

\* Array.from(new Set(ids)): the first occurrence of each id, in order.
RECURSIVE uniqueIds(_)
uniqueIds(ids) ==
  IF ids = <<>> THEN <<>>
  ELSE LET front == uniqueIds(SubSeq(ids, 1, Len(ids) - 1))
           last == ids[Len(ids)]
       IN  IF \E k \in DOMAIN front : front[k] = last THEN front
           ELSE Append(front, last)

\* (input.memberIds ?? []).filter((memberId) => memberId && memberId !== userId)
RECURSIVE withoutUser(_, _)
withoutUser(ids, uid) ==
  IF ids = <<>> THEN <<>>
  ELSE IF Head(ids) = uid THEN withoutUser(Tail(ids), uid)
  ELSE <<Head(ids)>> \o withoutUser(Tail(ids), uid)

\* Mutant: the invited ids are taken as they come.
createGroup_keepsInvited(input, uid, dsOutcome) ==
  LET gid == freshGroupId
      payload == [id |-> gid, owner_id |-> uid,
                  currency |-> IF input.currency = NULL THEN "USD" ELSE input.currency]
      memberRows ==
        <<[group_id |-> gid, member_id |-> uid, role |-> "owner"]>> \o
        [k \in DOMAIN input.memberIds |->
           [group_id |-> gid, member_id |-> input.memberIds[k], role |-> "member"]]
  IN  IF dsOutcome = "groupError"
        THEN UNCHANGED dbVars
        ELSE /\ db_groups' = Append(db_groups, payload)
             /\ db_group_members' =
                  IF dsOutcome = "membersError" THEN db_group_members
                  ELSE upsertMembers(db_group_members, memberRows)
             /\ UNCHANGED <<db_expenses, db_expense_splits, db_settlements, db_nextId>>

\* createGroup(input) for the signed-in user uid.  dsOutcome: "ok",
\* "groupError" (the insert fails) or "membersError" (the membership
\* upsert fails after the group was inserted).
createGroup(input, uid, dsOutcome) ==
  LET uniqueMemberIds == uniqueIds(withoutUser(input.memberIds, uid))
      gid == freshGroupId
      payload == [id |-> gid, owner_id |-> uid,
                  currency |-> IF input.currency = NULL THEN "USD" ELSE input.currency]
      memberRows ==
        <<[group_id |-> gid, member_id |-> uid, role |-> "owner"]>> \o
        [k \in DOMAIN uniqueMemberIds |->
           [group_id |-> gid, member_id |-> uniqueMemberIds[k], role |-> "member"]]
  IN  IF dsOutcome = "groupError"
        THEN UNCHANGED dbVars
        ELSE /\ db_groups' = Append(db_groups, payload)
             /\ db_group_members' =
                  IF dsOutcome = "membersError" THEN db_group_members
                  ELSE upsertMembers(db_group_members, memberRows)
             /\ UNCHANGED <<db_expenses, db_expense_splits, db_settlements, db_nextId>>

\* The groups table (supabase/schema.sql), as the specification describes
\* the store: an update of a row is kept as given.
groupsTableAccepts(old, new) == TRUE

\* updateGroup({id, ...changes}): currency is written when it is given
\* (NULL stands for undefined or null).  dsOutcome: "ok" or "error".
updateGroup(input, dsOutcome) ==
  LET exists == \E k \in DOMAIN db_groups : db_groups[k].id = input.id
      updated(row) == IF input.currency # NULL
                        THEN [row EXCEPT !.currency = input.currency]
                        ELSE row
  IN  IF dsOutcome = "error" \/ ~exists
           \/ \E k \in DOMAIN db_groups :
                /\ db_groups[k].id = input.id
                /\ ~groupsTableAccepts(db_groups[k], updated(db_groups[k]))
        THEN UNCHANGED dbVars
        ELSE /\ db_groups' = [k \in DOMAIN db_groups |->
                                IF db_groups[k].id = input.id
                                  THEN updated(db_groups[k]) ELSE db_groups[k]]
             /\ UNCHANGED <<db_group_members, db_expenses, db_expense_splits,
                            db_settlements, db_nextId>>

\* ----------------------------------------------- services/expenses.ts
\* What importUserData throws before its loop: payload is what JSON.parse
\* gave, getUser what supabase.auth.getUser() answers ("user", "error" or
\* "none").
importThrows_noVersionCheck(payload, getUser) ==
  IF ~payload.isObject THEN "Invalid backup payload."
  ELSE IF getUser = "error" THEN "userError"
  ELSE IF getUser = "none" THEN "You must be signed in to import data."
  ELSE "none"

importThrows(payload, getUser) ==
  IF ~payload.isObject THEN "Invalid backup payload."
  ELSE IF payload.version # 1 THEN "Backup version is not supported."
  ELSE IF getUser = "error" THEN "userError"
  ELSE IF getUser = "none" THEN "You must be signed in to import data."
  ELSE "none"

\* The result importUserData returns: the groups of another owner are
\* skipped, a group whose upsert fails is an error, every other group
\* counts as imported; a failed later upsert adds an error.
RECURSIVE importResultOf(_, _, _, _)
importResultOf(result, groups, uid, failing) ==
  IF groups = <<>> THEN result
  ELSE LET group == Head(groups)
           next ==
             IF group.owner_id # uid
               THEN [result EXCEPT !.skipped = Append(@, group.id)]
             ELSE IF failing = "groupError"
               THEN [result EXCEPT !.errors = @ + 1]
             ELSE [result EXCEPT !.imported = @ + 1,
                                 !.errors = @ + (IF failing = "ok" THEN 0 ELSE 1)]
       IN  importResultOf(next, Tail(groups), uid, failing)

\* ------------------------------------------------------ the calls drawn
\* A group as exportUserData writes it, with one member row for its owner
\* and one for c, one expense and one settlement.
ExportedGroup(gid, owner, currency, expenseId) ==
  [id |-> gid, owner_id |-> owner, currency |-> currency,
   group_members |-> <<[group_id |-> gid, member_id |-> owner, role |-> "owner"],
                       [group_id |-> gid, member_id |-> "c", role |-> "member"]>>,
   expenses |->
     <<[id |-> expenseId, group_id |-> gid, payer_id |-> owner, amount |-> 1000,
        expense_splits |->
          <<[id |-> expenseId + 1, expense_id |-> expenseId,
             member_id |-> owner, share |-> 500],
            [id |-> expenseId + 2, expense_id |-> expenseId,
             member_id |-> "c", share |-> 500]>>]>>,
   settlements |->
     <<[id |-> expenseId + 3, group_id |-> gid, from_member |-> "c",
        to_member |-> owner, amount |-> 333]>>]

\* The group lists of the backups restored: a's own g1, the same with its
\* currency edited, b's g2 (edited too), a group of b's the store does not
\* have, and lists of two.
RestoredGroupLists ==
  {<<>>,
   <<ExportedGroup("g1", "a", "USD", 110)>>,
   <<ExportedGroup("g1", "a", "EUR", 110)>>,
   <<ExportedGroup("g2", "b", "EUR", 120)>>,
   <<ExportedGroup("g9", "b", "USD", 130)>>,
   <<ExportedGroup("g2", "b", "EUR", 120), ExportedGroup("g1", "a", "USD", 110)>>,
   <<ExportedGroup("g8", "a", "EUR", 140), ExportedGroup("g9", "b", "USD", 130)>>}

\* What JSON.parse hands to importUserData: something that is not an
\* object, a backup of another version, a backup of version 1.
RestoredPayloads ==
  {[isObject |-> FALSE, version |-> 1, groups |-> <<>>],
   [isObject |-> TRUE, version |-> 2,
    groups |-> <<ExportedGroup("g1", "a", "EUR", 110)>>]}
  \cup {[isObject |-> TRUE, version |-> 1, groups |-> groups] :
           groups \in RestoredGroupLists}

GroupMemberInputs == {<<>>, <<"b">>, <<"a", "b", "b">>, <<"c", "a", "b", "c">>}

GroupsOpen ==
  /\ ~d_mounted
  /\ userId # NULL
  /\ svc_count < MaxGroupCalls
  /\ svc_count' = svc_count + 1

\* GroupsPage handleCreate: createGroup(values).
CallCreateGroup ==
  /\ GroupsOpen
  /\ \E memberIds \in GroupMemberInputs, currency \in {NULL, "EUR"},
        dsOutcome \in {"ok", "groupError", "membersError"} :
       /\ createGroup([memberIds |-> memberIds, currency |-> currency], userId, dsOutcome)
       /\ svc_input' = [memberIds |-> memberIds, currency |-> currency]
       /\ svc_call' = Observed("createGroup", 0, Len(memberIds), 0, FALSE,
                               IF dsOutcome = "ok" THEN "ok" ELSE "datastoreError")
  /\ UNCHANGED <<userId, hookVars, memoVars, splitVars, netVars, tolVars, foldVars,
                 imp_result, newVars>>

\* GroupsPage handleUpdate: updateGroup({id, name, description, currency}).
CallUpdateGroup ==
  /\ GroupsOpen
  /\ \E k \in DOMAIN db_groups, currency \in {NULL, "USD", "EUR"},
        dsOutcome \in {"ok", "error"} :
       /\ updateGroup([id |-> db_groups[k].id, currency |-> currency], dsOutcome)
       /\ svc_input' = [id |-> db_groups[k].id, currency |-> currency]
       /\ svc_call' = Observed("updateGroup", 0, 0, 0, FALSE,
                               IF dsOutcome = "ok" THEN "ok" ELSE "datastoreError")
  /\ UNCHANGED <<userId, hookVars, memoVars, splitVars, netVars, tolVars, foldVars,
                 imp_result, newVars>>

\* SettingsPage handleImport: importUserData(JSON.parse(text)).
HandleImport ==
  /\ GroupsOpen
  /\ \E payload \in RestoredPayloads, getUser \in {"user", "error", "none"},
        failing \in {"ok", "groupError", "expenseError"} :
       LET thrown == importThrows(payload, getUser)
       IN  /\ IF thrown # "none"
                THEN /\ UNCHANGED dbVars
                     /\ imp_result' = [EmptyImportResult EXCEPT !.thrown = thrown]
                ELSE /\ importUserData([groups |-> payload.groups], failing)
                     /\ imp_result' = importResultOf(EmptyImportResult, payload.groups,
                                                     userId, failing)
           /\ svc_input' = [payload |-> payload, getUser |-> getUser]
           /\ svc_call' = Observed("importUserData", 0, Len(payload.groups), 0, FALSE,
                                   thrown)
  /\ UNCHANGED <<userId, hookVars, memoVars, splitVars, netVars, tolVars, foldVars, newVars>>

InitGroups == InitDash

NextGroups ==
  \/ CallCreateGroup
  \/ CallUpdateGroup
  \/ HandleImport

SpecGroups == InitGroups /\ [][NextGroups]_vars

\* =============================================================== claims
\* What a summary holds for member m; a member without an entry counts 0.
EntryOf(summary, m) ==
  LET at == {k \in DOMAIN summary.members : summary.members[k].memberId = m}
  IN  IF at = {} THEN [memberId |-> m, paid |-> 0, owed |-> 0, net |-> 0]
      ELSE summary.members[CHOOSE k \in at : \A j \in at : k <= j]

PaidOf(summary, m) == EntryOf(summary, m).paid

OwedOf(summary, m) == EntryOf(summary, m).owed

NetOf(summary, m) == EntryOf(summary, m).net

EntryIds(summary) == {summary.members[k].memberId : k \in DOMAIN summary.members}

NetSum(summary) == SumSeq([k \in DOMAIN summary.members |-> summary.members[k].net])

RemoveAt(s, k) == [j \in 1..(Len(s) - 1) |-> IF j < k THEN s[j] ELSE s[j + 1]]

\* The expenses and settlements the dashboard holds for group gid.
ExpensesIn(gid) ==
  LET OfGroup(row) == row.group_id = gid
  IN  Filter(h_expenses, OfGroup)

SettlementsIn(gid) ==
  LET OfGroup(row) == row.group_id = gid
  IN  Filter(h_settlements, OfGroup)

\* Stored shares of an expense and its stored amount, in cents.
ShareCents(expense) ==
  SumSeq([k \in DOMAIN expense.expense_splits |-> expense.expense_splits[k].share])

WellFormed(expense) ==
  /\ expense.payer_id # NULL
  /\ Abs(ShareCents(expense) - expense.amount) <= 1

Loaded == d_mounted /\ d_pending = {}

\* ---- C1: after computeEqualSplit(A, ids) with A > 0 and N >= 1, every
\* share is a whole number of cents and the shares sum to totalCents, the
\* cent count nearest to A * 100 (either neighbour on a tie).
C1_SplitSumsToTotalCents ==
  (sp_pc = "returned" /\ sp_amount > 0 /\ Len(sp_participantIds) >= 1) =>
    /\ Len(sp_shares) = Len(sp_participantIds)
    /\ \A i \in DOMAIN sp_shares : sp_shares[i] % 10 = 0
    /\ Abs(SumSeq(sp_shares) - sp_amount) <= 5

C1_Witness ==
  /\ sp_pc = "returned"
  /\ sp_amount = 37
  /\ Len(sp_participantIds) = 3
  /\ SumSeq(sp_shares) = 40
  /\ sp_shares[1] # sp_shares[3]

\* ---- C2: the participant at 0-based index i gets baseShareCents + 1 when
\* i < remainder and baseShareCents otherwise; so the shares never increase
\* along the list and differ by at most one cent; 10.00 over three gives
\* 3.34, 3.33, 3.33.
C2_FirstRemainderGetExtraCent ==
  (sp_pc = "returned" /\ Len(sp_participantIds) >= 1) =>
    LET n == Len(sp_participantIds)
        totalCents == SumSeq(sp_shares) \div 10
        baseShareCents == totalCents \div n
        remainder == totalCents - baseShareCents * n
    IN  /\ Len(sp_shares) = n
        /\ Abs(totalCents * 10 - sp_amount) <= 5
        /\ remainder \in 0..(n - 1)
        /\ \A i \in 0..(n - 1) :
             sp_shares[i + 1] = 10 * (IF i < remainder THEN baseShareCents + 1
                                      ELSE baseShareCents)
        /\ \A i \in 1..(n - 1) : sp_shares[i] >= sp_shares[i + 1]
        /\ \A i, j \in 1..n : Abs(sp_shares[i] - sp_shares[j]) <= 10
        /\ (sp_amount = 10000 /\ n = 3) => sp_shares = <<3340, 3330, 3330>>

C2_Witness ==
  /\ sp_pc = "returned"
  /\ sp_amount = 10000
  /\ sp_participantIds = <<"c", "b", "a">>
  /\ sp_shares = <<3340, 3330, 3330>>

\* ---- C10: formatNetStatus is positive exactly when net > 0.005, negative
\* exactly when net < -0.005 and neutral otherwise, the two thresholds
\* included; the amount it reports is |net| (to the cent, in the
\* currency).
C10_NetStatusThresholds ==
  (ns_pc = "returned") =>
    /\ (ns_status.tone = "positive") <=> (ns_net > 5)
    /\ (ns_status.tone = "negative") <=> (ns_net < -5)
    /\ (ns_status.tone = "neutral") <=> (ns_net >= -5 /\ ns_net <= 5)
    /\ (ns_status.tone # "neutral") =>
         /\ ns_status.value.currency = ns_currency
         /\ ns_status.value.cents >= 0
         /\ Abs(ns_status.value.cents * 10 - Abs(ns_net)) <= 5

C10_Witness ==
  /\ ns_pc = "returned"
  /\ ns_net = 5
  /\ ns_status.tone = "neutral"

\* Sums over the lists the dashboard holds, in mills, for group gid.
PaidByIn(gid, m) ==
  LET es == ExpensesIn(gid)
  IN  SumSeq([k \in DOMAIN es |-> IF es[k].payer_id = m THEN es[k].amount * 10 ELSE 0])

SharesOfIn(gid, m) ==
  LET es == ExpensesIn(gid)
      Mine(expense) ==
        SumSeq([j \in DOMAIN expense.expense_splits |->
                  IF expense.expense_splits[j].member_id = m
                    THEN expense.expense_splits[j].share * 10 ELSE 0])
  IN  SumSeq([k \in DOMAIN es |-> Mine(es[k])])

PaidTotalIn(gid) ==
  LET es == ExpensesIn(gid)
  IN  SumSeq([k \in DOMAIN es |-> IF es[k].payer_id # NULL THEN es[k].amount * 10 ELSE 0])

SharesTotalIn(gid) ==
  LET es == ExpensesIn(gid)
  IN  SumSeq([k \in DOMAIN es |-> ShareCents(es[k]) * 10])

AllWellFormedIn(gid) ==
  LET es == ExpensesIn(gid)
  IN  \A k \in DOMAIN es : WellFormed(es[k])

\* ---- C3 as stated (and granting every folded expense a payer and shares
\* within 0.01 of its amount): the net positions of a group sum to zero
\* within 0.01 in total.
C3_ZeroSumWithinOneCent ==
  \A i \in DOMAIN groupSummaries :
    AllWellFormedIn(groupSummaries[i].group) => Abs(NetSum(groupSummaries[i])) <= 10

\* ---- C3 amended: the net positions of a group sum to the amounts of its
\* expenses that have a payer minus all its split shares, whatever its
\* settlements; so they sum to zero within 0.01 per expense when every
\* expense has a payer and shares within 0.01 of its amount.
C3_NetSumIsPaidMinusShares ==
  \A i \in DOMAIN groupSummaries :
    LET gid == groupSummaries[i].group
    IN  /\ NetSum(groupSummaries[i]) = PaidTotalIn(gid) - SharesTotalIn(gid)
        /\ AllWellFormedIn(gid) =>
             Abs(NetSum(groupSummaries[i])) <= 10 * Len(ExpensesIn(gid))

C3_Witness ==
  /\ Loaded
  /\ \E i \in DOMAIN groupSummaries :
       /\ AllWellFormedIn(groupSummaries[i].group)
       /\ Len(ExpensesIn(groupSummaries[i].group)) = 2
       /\ NetSum(groupSummaries[i]) = -20

\* ---- C4: a settlement of X from F to T lowers F's owed by X and T's paid
\* by X and changes nobody else's paid or owed, and a settlement of another
\* group changes nothing: each summary differs in exactly this way from
\* the summary of the same data without that settlement.
C4_SettlementLowersOwedAndPaid ==
  \A i \in DOMAIN groupSummaries :
    i \in DOMAIN h_groups =>
      \A k \in DOMAIN h_settlements :
        LET st == h_settlements[k]
            X == st.amount * 10
            without == groupSummary(h_groups[i], h_expenses, RemoveAt(h_settlements, k))
        IN  IF st.group_id = h_groups[i].id
              THEN \A m \in Profiles :
                     /\ PaidOf(groupSummaries[i], m) =
                          PaidOf(without, m) - (IF m = st.to_member THEN X ELSE 0)
                     /\ OwedOf(groupSummaries[i], m) =
                          OwedOf(without, m) - (IF m = st.from_member THEN X ELSE 0)
              ELSE groupSummaries[i] = without

C4_Witness ==
  /\ Loaded
  /\ \E i \in DOMAIN groupSummaries :
       /\ SettlementsIn(groupSummaries[i].group) # <<>>
       /\ ExpensesIn(groupSummaries[i].group) # <<>>
       /\ \E m \in Profiles : OwedOf(groupSummaries[i], m) < 0
       /\ \E m \in Profiles : PaidOf(groupSummaries[i], m) > 0

\* ---- C5: one settlement of X from A to B raises A's net by X and lowers
\* B's net by X against the balances without it, and leaves every other
\* net as it was; after A paid 10.00 split three ways, B paying A 3.33
\* leaves B.net = 0 and A.net = 3.33.
C5_SettlementShiftsNet ==
  \A i \in DOMAIN groupSummaries :
    i \in DOMAIN h_groups =>
      /\ \A k \in DOMAIN h_settlements :
           LET st == h_settlements[k]
               X == st.amount * 10
               without == groupSummary(h_groups[i], h_expenses, RemoveAt(h_settlements, k))
           IN  st.group_id = h_groups[i].id =>
                 \A m \in Profiles :
                   NetOf(groupSummaries[i], m) =
                     NetOf(without, m) + (IF m = st.from_member THEN X ELSE 0)
                                       - (IF m = st.to_member THEN X ELSE 0)
      /\ LET es == ExpensesIn(h_groups[i].id)
             ss == SettlementsIn(h_groups[i].id)
         IN  ( /\ Len(es) = 1 /\ Len(ss) = 1
               /\ es[1].payer_id = "a" /\ es[1].amount = 1000
               /\ es[1].expense_splits = << [member_id |-> "a", share |-> 334],
                                            [member_id |-> "b", share |-> 333],
                                            [member_id |-> "c", share |-> 333] >>
               /\ ss[1].from_member = "b" /\ ss[1].to_member = "a"
               /\ ss[1].amount = 333 )
             => /\ NetOf(groupSummaries[i], "b") = 0
                /\ NetOf(groupSummaries[i], "a") = 3330
                /\ NetOf(groupSummaries[i], "c") = -3330

C5_Witness ==
  /\ Loaded
  /\ \E i \in DOMAIN groupSummaries :
       /\ Len(ExpensesIn(groupSummaries[i].group)) = 1
       /\ Len(SettlementsIn(groupSummaries[i].group)) = 1
       /\ SettlementsIn(groupSummaries[i].group)[1].from_member = "b"
       /\ NetOf(groupSummaries[i], "b") = 0
       /\ NetOf(groupSummaries[i], "a") = 3330
       /\ NetOf(groupSummaries[i], "c") = -3330

\* ---- C6: net = paid - owed for every entry; in a group without
\* settlements a member's paid is the sum of the amounts of the expenses
\* whose payer_id it is and its owed the sum of its split shares; 10.00
\* paid by A and split equally over A, B, C gives +6.66, -3.33, -3.33.
C6_ExpenseFold ==
  \A i \in DOMAIN groupSummaries :
    LET summary == groupSummaries[i]
        gid == summary.group
        es == ExpensesIn(gid)
    IN  /\ \A k \in DOMAIN summary.members :
             summary.members[k].net = summary.members[k].paid - summary.members[k].owed
        /\ SettlementsIn(gid) = <<>> =>
             \A m \in Profiles :
               /\ PaidOf(summary, m) = PaidByIn(gid, m)
               /\ OwedOf(summary, m) = SharesOfIn(gid, m)
        /\ ( /\ Len(es) = 1 /\ SettlementsIn(gid) = <<>>
             /\ es[1].payer_id = "a" /\ es[1].amount = 1000
             /\ es[1].expense_splits = << [member_id |-> "a", share |-> 334],
                                          [member_id |-> "b", share |-> 333],
                                          [member_id |-> "c", share |-> 333] >> )
           => /\ PaidOf(summary, "a") = 10000 /\ OwedOf(summary, "a") = 3340
              /\ NetOf(summary, "a") = 6660
              /\ NetOf(summary, "b") = -3330
              /\ NetOf(summary, "c") = -3330

C6_Witness ==
  /\ Loaded
  /\ \E i \in DOMAIN groupSummaries :
       /\ Len(ExpensesIn(groupSummaries[i].group)) = 1
       /\ SettlementsIn(groupSummaries[i].group) = <<>>
       /\ NetOf(groupSummaries[i], "a") = 6660
       /\ NetOf(groupSummaries[i], "b") = -3330
       /\ NetOf(groupSummaries[i], "c") = -3330

\* The ids a group's loaded lists name.
MemberIdsIn(group) == SeqToSet(memberIdsOf(group))

ExpensePartiesIn(gid) ==
  LET es == ExpensesIn(gid)
  IN  {es[k].payer_id : k \in {j \in DOMAIN es : es[j].payer_id # NULL}}
      \cup UNION {{es[k].expense_splits[j].member_id : j \in DOMAIN es[k].expense_splits} :
                  k \in DOMAIN es}

SettlementPartiesIn(gid) ==
  LET ss == SettlementsIn(gid)
  IN  {ss[k].from_member : k \in DOMAIN ss} \cup {ss[k].to_member : k \in DOMAIN ss}

\* ---- C7 as stated: the balance list of a group has exactly one entry per
\* current member and one per non-member that is payer or split
\* participant of one of its expenses.
C7_EntriesAreMembersAndExpenseParties ==
  \A i \in DOMAIN groupSummaries :
    i \in DOMAIN h_groups =>
      /\ Len(groupSummaries[i].members) = Cardinality(EntryIds(groupSummaries[i]))
      /\ EntryIds(groupSummaries[i]) =
           MemberIdsIn(h_groups[i]) \cup ExpensePartiesIn(h_groups[i].id)

\* ---- C7 amended: the balance list of a group has exactly one entry per
\* current member (the owner among them even without a membership row;
\* a member without activity with paid = owed = 0) and one per non-member
\* that is payer or split participant of one of its expenses or from or
\* to member of one of its settlements.
C7_EntriesAreMembersAndLedgerParties ==
  /\ Len(groupSummaries) = Len(h_groups)
  /\ \A i \in DOMAIN groupSummaries :
       LET summary == groupSummaries[i]
           gid == h_groups[i].id
           parties == ExpensePartiesIn(gid) \cup SettlementPartiesIn(gid)
       IN  /\ summary.group = gid
           /\ Len(summary.members) = Cardinality(EntryIds(summary))
           /\ EntryIds(summary) = MemberIdsIn(h_groups[i]) \cup parties
           /\ h_groups[i].owner_id \in EntryIds(summary)
           /\ \A k \in DOMAIN summary.members :
                summary.members[k].memberId \notin parties =>
                  summary.members[k].paid = 0 /\ summary.members[k].owed = 0

\* g2's owner b has no membership row; c left g1 after an expense.
C7_Witness ==
  /\ Loaded
  /\ \E i, j \in DOMAIN groupSummaries :
       /\ h_groups[i].id = "g2"
       /\ ~\E k \in DOMAIN db_group_members :
             db_group_members[k].group_id = "g2" /\ db_group_members[k].member_id = "b"
       /\ "b" \in EntryIds(groupSummaries[i])
       /\ PaidOf(groupSummaries[i], "b") = 0 /\ OwedOf(groupSummaries[i], "b") = 0
       /\ h_groups[j].id = "g1"
       /\ "c" \notin MemberIdsIn(h_groups[j])
       /\ "c" \in ExpensePartiesIn("g1")
       /\ "c" \in EntryIds(groupSummaries[j])

\* The summaries of currency cur that have an entry for the user.
WithUserIn(cur) ==
  {i \in DOMAIN groupSummaries :
     /\ groupSummaries[i].currency = cur
     /\ userId \in EntryIds(groupSummaries[i])}

RECURSIVE SumOver(_, _)
SumOver(S, f) ==
  IF S = {} THEN 0
  ELSE LET x == CHOOSE y \in S : TRUE IN f[x] + SumOver(S \ {x}, f)

\* ---- C8: each per-currency total is the sum of the user's paid, owed
\* and net over exactly the groups of that currency; groups of different
\* currencies are never added together.
C8_TotalsPerCurrency ==
  /\ \A k, l \in DOMAIN currencySummaries :
       currencySummaries[k].currency = currencySummaries[l].currency => k = l
  /\ \A k \in DOMAIN currencySummaries :
       LET total == currencySummaries[k]
           S == WithUserIn(total.currency)
       IN  /\ total.paid = SumOver(S, [i \in S |-> PaidOf(groupSummaries[i], userId)])
           /\ total.owed = SumOver(S, [i \in S |-> OwedOf(groupSummaries[i], userId)])
           /\ total.net = SumOver(S, [i \in S |-> NetOf(groupSummaries[i], userId)])

\* Two USD groups with +6.66 and -5.00 for the user give +1.66 USD, beside
\* an EUR bucket.
C8_Witness ==
  /\ Loaded
  /\ Len(currencySummaries) = 2
  /\ \E i, j \in DOMAIN groupSummaries :
       /\ i # j
       /\ groupSummaries[i].currency = "USD" /\ groupSummaries[j].currency = "USD"
       /\ NetOf(groupSummaries[i], userId) = 6660
       /\ NetOf(groupSummaries[j], userId) = -5000
  /\ \E k \in DOMAIN currencySummaries :
       currencySummaries[k].currency = "USD" /\ currencySummaries[k].net = 1660
  /\ \E k \in DOMAIN currencySummaries : currencySummaries[k].currency = "EUR"

\* ---- C9: a group without an entry for the user adds nothing to the
\* totals and makes no bucket: a currency is in the result exactly when a
\* group of that currency has an entry for the user, and the result is
\* that of the summaries that have one.
C9_GroupsWithoutUserExcluded ==
  LET HasUser(summary) == userId \in EntryIds(summary)
  IN  /\ {currencySummaries[k].currency : k \in DOMAIN currencySummaries} =
           {groupSummaries[i].currency :
              i \in {j \in DOMAIN groupSummaries : HasUser(groupSummaries[j])}}
      /\ currencySummaries = currencyTotalsOf(<<>>, Filter(groupSummaries, HasUser), userId)

\* b looks at the groups loaded for a: the EUR group has no entry for b.
C9_Witness ==
  /\ Loaded
  /\ \E i \in DOMAIN groupSummaries :
       /\ groupSummaries[i].currency = "EUR"
       /\ userId \notin EntryIds(groupSummaries[i])
  /\ \E k \in DOMAIN currencySummaries :
       currencySummaries[k].currency = "USD" /\ currencySummaries[k].net # 0
  /\ \A k \in DOMAIN currencySummaries : currencySummaries[k].currency # "EUR"

\* totalSplit - amount of the validation made, in mills.
ToleranceDiff == totalSplitOf(tol_shares) - tol_amount

ToleranceRejected ==
  tol_verdict \in {"Split shares must add up to the total amount",
                   "Custom splits need to add up to the expense total"}

\* ---- C11: createExpense, updateExpense and the form's custom-split
\* validation accept shares whose sum is within 0.01 of the amount, 0.01
\* above or below included, and reject them when it is 0.02 or more off.
C11_AcceptsWithinOneCent ==
  (tol_pc = "returned" /\ tol_shares # <<>>) =>
    /\ Abs(ToleranceDiff) <= 10 => ~ToleranceRejected
    /\ Abs(ToleranceDiff) >= 20 => ToleranceRejected

\* The messages of the validation errors of the services.
EmptySplitsMessage == "Provide at least one split participant"

SplitSumMessage == "Split shares must add up to the total amount"

SameMemberMessage == "Members must be different for a settlement"

NoSplitsDerivedMessage ==
  "Unable to calculate participant splits. Check the amount and selected members."

\* A call was made in this step; svc_call' is what its caller saw.
Called == svc_count' # svc_count

\* ---- C12: a request with no participants writes nothing: the page
\* handlers get no splits from deriveSplits when there are no participants
\* or the amount is not positive and throw without calling the service,
\* and createExpense and updateExpense throw 'Provide at least one split
\* participant' on an empty split list; the tables stay as they were.
C12_NoParticipantsNoWrite ==
  [][Called =>
       /\ (/\ svc_call'.op \in {"handleCreate", "handleUpdate"}
           /\ (svc_call'.count = 0 \/ svc_call'.amount <= 0)) =>
            (svc_call'.verdict = NoSplitsDerivedMessage /\ UNCHANGED dbVars)
       /\ (/\ svc_call'.op \in {"createExpense", "updateExpense"}
           /\ svc_call'.count = 0) =>
            (svc_call'.verdict = EmptySplitsMessage /\ UNCHANGED dbVars)
    ]_vars

\* updateExpense was called with no splits on a stored expense, which kept
\* its splits.
C12_Witness ==
  /\ svc_call.op = "updateExpense"
  /\ svc_call.count = 0
  /\ svc_call.verdict = EmptySplitsMessage
  /\ db_expenses # <<>>
  /\ db_expense_splits # <<>>

\* ---- C13: when createExpense, updateExpense or createSettlement rejects
\* its input for a validation reason (no splits, shares not matching the
\* amount, the same member twice), the stored groups, expenses, splits and
\* settlements are what they were before the call.
C13_ValidationRejectsBeforeWriting ==
  [][(/\ Called
      /\ svc_call'.op \in {"createExpense", "updateExpense", "createSettlement"}
      /\ svc_call'.verdict \in {EmptySplitsMessage, SplitSumMessage, SameMemberMessage})
       => UNCHANGED dbVars
    ]_vars

\* updateExpense refused shares two cents over while an expense and a
\* settlement were stored.
C13_Witness ==
  /\ svc_call.op = "updateExpense"
  /\ svc_call.verdict = SplitSumMessage
  /\ svc_call.diff = 20
  /\ db_expenses # <<>>
  /\ db_settlements # <<>>

\* The stored shares of a stored expense, summed, in cents.
StoredShareSum(eid) ==
  SumSeq([k \in DOMAIN db_expense_splits |->
            IF db_expense_splits[k].expense_id = eid
              THEN db_expense_splits[k].share ELSE 0])

\* ---- C14: whatever createExpense, updateExpense, deleteExpense and
\* importUserData calls were made, failed datastore steps included, every
\* stored expense has split shares summing to its amount within 0.01.
C14_StoredSharesMatchAmount ==
  \A k \in DOMAIN db_expenses :
    Abs(StoredShareSum(db_expenses[k].id) - db_expenses[k].amount) <= 1

\* ---- C15: whatever createSettlement, updateSettlement, deleteSettlement
\* and importUserData calls were made, every stored settlement has
\* from_member different from to_member, and a request that would make
\* them equal is rejected as a validation error.
C15_SettlementMembersDiffer ==
  /\ \A k \in DOMAIN db_settlements :
       db_settlements[k].from_member # db_settlements[k].to_member
  /\ (svc_call.op \in {"createSettlement", "updateSettlement"} /\ svc_call.same) =>
       svc_call.verdict = SameMemberMessage

\* ---- C16: computeEqualSplit returns for every amount and participant
\* list (it has no throw), with one share per participant in the list's
\* order; for the empty list, the count being clamped to 1 for the
\* division, the result is the empty list.
C16_OneSharePerParticipant ==
  /\ computeEqualSplit(sp_amount, sp_participantIds) # {}
  /\ sp_pc = "returned" =>
       /\ DOMAIN sp_shares = DOMAIN sp_participantIds
       /\ sp_participantIds = <<>> => sp_shares = <<>>

\* A positive amount was split among nobody.
C16_Witness ==
  /\ sp_pc = "returned"
  /\ sp_amount = 10000
  /\ sp_participantIds = <<>>
  /\ sp_shares = <<>>

\* The lists that hold the ids of s in another order.
PermutationsOf(s) ==
  {[i \in DOMAIN s |-> s[p[i]]] :
     p \in {f \in [DOMAIN s -> DOMAIN s] :
             \A i, j \in DOMAIN s : f[i] = f[j] => i = j}}

\* ---- C17: the shares computeEqualSplit returns depend on the amount and
\* the positions only: called on any permutation of the same ids it
\* returns the same share vector, the extra cents going to whoever stands
\* in the first `remainder` positions.
C17_SharesFollowPositions ==
  sp_pc = "returned" =>
    \A permuted \in PermutationsOf(sp_participantIds) :
      /\ computeEqualSplit(sp_amount, permuted) =
           computeEqualSplit(sp_amount, sp_participantIds)
      /\ sp_shares \in computeEqualSplit(sp_amount, permuted)

\* 10.00 among c, b, a: c, now first, has the extra cent.
C17_Witness ==
  /\ sp_pc = "returned"
  /\ sp_amount = 10000
  /\ sp_participantIds = <<"c", "b", "a">>
  /\ sp_shares = <<3340, 3330, 3330>>

\* ---- C19: computeEqualSplit leaves the amount and the participant list
\* it was given as they were, and a render of the Dashboard leaves its
\* inputs as they were: the stored rows are untouched, and the groups,
\* expenses and settlements the hooks hold are either what they held
\* before or exactly what the fetch that just resolved returned.
C19_InputsLeftUnchanged ==
  [][/\ (sp_pc = "call" /\ sp_pc' = "returned") =>
          UNCHANGED <<sp_amount, sp_participantIds>>
     /\ (d_mounted' /\ memoVars' # memoVars) =>
          /\ UNCHANGED dbVars
          /\ h_groups' \in {h_groups, fetchGroups(userId)}
          /\ h_expenses' \in {h_expenses, fetchExpenses(userId)}
          /\ h_settlements' \in {h_settlements, fetchSettlements}
          /\ (d_mounted /\ d_pending' = d_pending) =>
               UNCHANGED <<h_groups, h_expenses, h_settlements>>
    ]_vars

\* The split of 10.00 among c, b, a has returned with the list still c, b,
\* a, and the Dashboard shows summaries computed from a fetched expense.
C19_Witness ==
  /\ sp_pc = "returned"
  /\ sp_participantIds = <<"c", "b", "a">>
  /\ sp_shares = <<3340, 3330, 3330>>
  /\ d_mounted
  /\ h_groups # <<>>
  /\ h_expenses # <<>>
  /\ groupSummaries # <<>>
  /\ \E k \in DOMAIN h_expenses : h_expenses[k].expense_splits # <<>>

\* Settlement amounts the dashboard holds for group gid, in mills, sent by
\* m and received by m.
SettledFromIn(gid, m) ==
  LET ss == SettlementsIn(gid)
  IN  SumSeq([k \in DOMAIN ss |-> IF ss[k].from_member = m THEN ss[k].amount * 10 ELSE 0])

SettledToIn(gid, m) ==
  LET ss == SettlementsIn(gid)
  IN  SumSeq([k \in DOMAIN ss |-> IF ss[k].to_member = m THEN ss[k].amount * 10 ELSE 0])

\* ---- C20: the fold yields a summary for every group held, and an id
\* that is payer, split member or settlement party in a group without
\* being a current member of it has exactly one entry there, under that
\* id, holding all its amounts: paid is what it paid less what it received
\* in settlements, owed its shares less what it sent in settlements.
C20_NonMembersKeepTheirAmounts ==
  /\ Len(groupSummaries) = Len(h_groups)
  /\ \A i \in DOMAIN groupSummaries :
       LET summary == groupSummaries[i]
           gid == h_groups[i].id
           parties == ExpensePartiesIn(gid) \cup SettlementPartiesIn(gid)
       IN  \A m \in parties \ MemberIdsIn(h_groups[i]) :
             /\ Cardinality({k \in DOMAIN summary.members :
                               summary.members[k].memberId = m}) = 1
             /\ PaidOf(summary, m) = PaidByIn(gid, m) - SettledToIn(gid, m)
             /\ OwedOf(summary, m) = SharesOfIn(gid, m) - SettledFromIn(gid, m)
             /\ NetOf(summary, m) = PaidOf(summary, m) - OwedOf(summary, m)

\* A member that left its group is still named by an expense split and by
\* a settlement of that group, and its entry carries both.
C20_Witness ==
  /\ Loaded
  /\ \E i \in DOMAIN groupSummaries :
     \E m \in Profiles \ MemberIdsIn(h_groups[i]) :
       /\ m \in ExpensePartiesIn(h_groups[i].id)
       /\ m \in SettlementPartiesIn(h_groups[i].id)
       /\ SharesOfIn(h_groups[i].id, m) > 0
       /\ SettledFromIn(h_groups[i].id, m) + SettledToIn(h_groups[i].id, m) > 0
       /\ NetOf(groupSummaries[i], m) # 0

\* The fold was handed an amount or a share that is not a number.
FoldInputNotANumber ==
  \/ \E k \in DOMAIN fold_expenses :
       \/ fold_expenses[k].amount = NotANumber
       \/ \E j \in DOMAIN fold_expenses[k].expense_splits :
            fold_expenses[k].expense_splits[j].share = NotANumber
  \/ \E k \in DOMAIN fold_settlements : fold_settlements[k].amount = NotANumber

\* ---- C21: when an expense amount, a split share or a settlement amount
\* handed to the fold is missing or not a number, the fold fails with an
\* error and yields no balances.
C21_FoldFailsOnMissingNumber ==
  (fold_pc = "returned" /\ FoldInputNotANumber) =>
    (fold_result.thrown /\ fold_result.summaries = <<>>)

\* The rows the store holds that belong to a group of a backup or to one
\* of the expenses, splits and settlements the backup lists for it.
RowsOf(group, groups, members, expenses, splits, settlements) ==
  LET expenseIds == {group.expenses[k].id : k \in DOMAIN group.expenses}
      splitIds == UNION {{group.expenses[k].expense_splits[j].id :
                            j \in DOMAIN group.expenses[k].expense_splits} :
                         k \in DOMAIN group.expenses}
      settlementIds == {group.settlements[k].id : k \in DOMAIN group.settlements}
  IN  [groups |-> {groups[k] : k \in {j \in DOMAIN groups : groups[j].id = group.id}},
       members |-> {members[k] :
                      k \in {j \in DOMAIN members : members[j].group_id = group.id}},
       expenses |-> {expenses[k] :
                       k \in {j \in DOMAIN expenses :
                                \/ expenses[j].group_id = group.id
                                \/ expenses[j].id \in expenseIds}},
       splits |-> {splits[k] :
                     k \in {j \in DOMAIN splits :
                              \/ splits[j].id \in splitIds
                              \/ splits[j].expense_id \in expenseIds}},
       settlements |-> {settlements[k] :
                          k \in {j \in DOMAIN settlements :
                                   \/ settlements[j].group_id = group.id
                                   \/ settlements[j].id \in settlementIds}}]

\* importUserData was called in this step and got past its checks.
Imported ==
  /\ Called
  /\ svc_call'.op = "importUserData"
  /\ imp_result'.thrown = "none"

\* ---- C22: for a group of the payload whose owner_id is not the signed-in
\* user, importUserData writes no group, membership, expense, split or
\* settlement row; the group is listed in result.skipped, and
\* result.imported counts none of them.
C22_ForeignGroupsAreSkipped ==
  [][Imported =>
       LET groups == svc_input'.payload.groups
           foreign == {k \in DOMAIN groups : groups[k].owner_id # userId}
       IN  /\ \A k \in foreign :
                /\ RowsOf(groups[k], db_groups', db_group_members', db_expenses',
                          db_expense_splits', db_settlements')
                   = RowsOf(groups[k], db_groups, db_group_members, db_expenses,
                            db_expense_splits, db_settlements)
                /\ \E j \in DOMAIN imp_result'.skipped :
                     imp_result'.skipped[j] = groups[k].id
           /\ Len(imp_result'.skipped) = Cardinality(foreign)
           /\ imp_result'.imported <= Len(groups) - Cardinality(foreign)
    ]_vars

\* A backup of b's g2 and a's g1 was restored by a: g2 was skipped and
\* kept its currency, g1 was imported with its expense.
C22_Witness ==
  /\ svc_call.op = "importUserData"
  /\ imp_result.skipped = <<"g2">>
  /\ imp_result.imported = 1
  /\ \E k \in DOMAIN db_groups : db_groups[k].id = "g2" /\ db_groups[k].currency = "USD"
  /\ \E k \in DOMAIN db_expenses : db_expenses[k].group_id = "g1"
  /\ ~\E k \in DOMAIN db_expenses : db_expenses[k].group_id = "g2"

\* ---- C29: importUserData throws, and the stored data is unchanged,
\* when the payload is not an object, when its version is not 1, when
\* reading the current user fails and when nobody is signed in.
C29_ImportThrowsBeforeWriting ==
  [][(Called /\ svc_call'.op = "importUserData") =>
       LET payload == svc_input'.payload
           getUser == svc_input'.getUser
       IN  (~payload.isObject \/ payload.version # 1 \/ getUser \in {"error", "none"}) =>
             /\ imp_result'.thrown # "none"
             /\ ~payload.isObject => imp_result'.thrown = "Invalid backup payload."
             /\ (payload.isObject /\ payload.version # 1) =>
                  imp_result'.thrown = "Backup version is not supported."
             /\ imp_result'.imported = 0
             /\ UNCHANGED dbVars
    ]_vars

\* A backup of version 2 holding a's g1 in EUR was refused; g1 is still in
\* USD.
C29_Witness ==
  /\ svc_call.op = "importUserData"
  /\ imp_result.thrown = "Backup version is not supported."
  /\ svc_input.payload.groups # <<>>
  /\ \E k \in DOMAIN db_groups : db_groups[k].id = "g1" /\ db_groups[k].currency = "USD"

\* A stored group with its membership rows, as groupSelect returns it,
\* normalized.
NormalizedGroup(k) ==
  normalizeGroupMembers([id |-> db_groups[k].id, owner_id |-> db_groups[k].owner_id,
                         currency |-> db_groups[k].currency,
                         group_members |-> groupMembersOf(db_groups[k].id)])

\* ---- C23: createGroup, when it succeeds, leaves the new group with one
\* 'owner' row for its creator and one 'member' row for each invited id
\* other than the creator, duplicates dropped; and the normalized member
\* list of every stored group holds the owner exactly once and every
\* membership row of the group, in the order stored.
C23_OwnerIsAlwaysAMember ==
  /\ \A k \in DOMAIN db_groups :
       LET members == NormalizedGroup(k).group_members
           rows == groupMembersOf(db_groups[k].id)
       IN  /\ Cardinality({i \in DOMAIN members :
                             members[i].member_id = db_groups[k].owner_id}) = 1
           /\ Len(members) >= Len(rows)
           /\ SubSeq(members, 1, Len(rows)) = rows
           /\ Len(members) <= Len(rows) + 1
  /\ (svc_call.op = "createGroup" /\ svc_call.verdict = "ok") =>
       LET group == db_groups[Len(db_groups)]
           rows == groupMembersOf(group.id)
           invited == SeqToSet(svc_input.memberIds) \ {userId}
       IN  /\ group.owner_id = userId
           /\ Len(rows) = 1 + Cardinality(invited)
           /\ rows[1] = [group_id |-> group.id, member_id |-> userId, role |-> "owner"]
           /\ {rows[i].member_id : i \in 2..Len(rows)} = invited
           /\ \A i \in 2..Len(rows) : rows[i].role = "member"

\* a created a group inviting c, a, b, c: the rows are a as owner, then c
\* and b; and a group whose membership rows could not be written still
\* lists its owner.
C23_Witness ==
  /\ svc_call.op = "createGroup" /\ svc_call.verdict = "ok"
  /\ svc_input.memberIds = <<"c", "a", "b", "c">>
  /\ Len(groupMembersOf(db_groups[Len(db_groups)].id)) = 3
  /\ \E k \in DOMAIN db_groups :
       /\ groupMembersOf(db_groups[k].id) = <<>>
       /\ Len(NormalizedGroup(k).group_members) = 1

\* ---- C24: no step changes the currency of a group the store already
\* holds.
C24_CurrencyIsFixed ==
  [][\A k \in DOMAIN db_groups : \A j \in DOMAIN db_groups' :
       db_groups'[j].id = db_groups[k].id =>
         db_groups'[j].currency = db_groups[k].currency
    ]_vars

\* The stored split rows of expense eid, in order, and those of the other
\* expenses.
SplitRowsOf(splits, eid) ==
  LET OfExpense(row) == row.expense_id = eid
  IN  Filter(splits, OfExpense)

SplitRowsNotOf(splits, eid) ==
  LET OfOthers(row) == row.expense_id # eid
  IN  Filter(splits, OfOthers)

\* ---- C26: when updateExpense has succeeded, the stored split rows of
\* the expense are the input splits, one row per split with its member
\* and its share, none of the earlier rows of the expense remaining, and
\* the split rows of every other expense are as they were.
C26_UpdateReplacesSplits ==
  [][(Called /\ svc_call'.op = "updateExpense" /\ svc_call'.verdict = "ok") =>
       LET input == svc_input'
           rows == SplitRowsOf(db_expense_splits', input.id)
           old == SplitRowsOf(db_expense_splits, input.id)
       IN  /\ Len(rows) = Len(input.splits)
           /\ \A i \in DOMAIN rows :
                /\ rows[i].member_id = input.splits[i].memberId
                /\ rows[i].share * 10 = input.splits[i].share
                /\ \A j \in DOMAIN old : rows[i].id # old[j].id
           /\ SplitRowsNotOf(db_expense_splits', input.id)
                = SplitRowsNotOf(db_expense_splits, input.id)
    ]_vars

\* Two expenses are stored; the splits of one were replaced by an update
\* and the other still has its two rows.
C26_Witness ==
  /\ svc_call.op = "updateExpense" /\ svc_call.verdict = "ok"
  /\ Len(db_expenses) = 2
  /\ Len(SplitRowsOf(db_expense_splits, svc_input.id)) = 2
  /\ Len(SplitRowsNotOf(db_expense_splits, svc_input.id)) = 2

\* Every debt of the argument is a finite number.
FiniteDebts ==
  \A k \in DOMAIN opt_balances : \A e \in DOMAIN opt_balances[k] :
    opt_balances[k][e].amount # Infinity

\* What member person has after the transfers: its net balance, plus what
\* it sent, less what it received.
SettledBalanceOf(person) ==
  netBalanceOf(opt_balances, person)
  + SumSeq([k \in DOMAIN opt_settlements |->
              (IF opt_settlements[k].from = person THEN opt_settlements[k].amount ELSE 0)
              - (IF opt_settlements[k].to = person THEN opt_settlements[k].amount ELSE 0)])

\* The largest number of parts into which the members of S can be split
\* so that the net balances of each part sum to zero.
RECURSIVE MaxZeroSumParts(_)
MaxZeroSumParts(S) ==
  IF S = {} THEN 0
  ELSE LET x == CHOOSE y \in S : TRUE
           NetOfSet(T) == SumOver(T, [p \in T |-> netBalanceOf(opt_balances, p)])
           parts == {T \in SUBSET S : x \in T /\ NetOfSet(T) = 0}
           counts == {1 + MaxZeroSumParts(S \ T) : T \in parts}
       IN  CHOOSE n \in counts : \A m \in counts : n >= m

\* The fewest transfers that settle every member: a part of k members
\* with zero sum needs k - 1.
MinTransfers ==
  LET unsettled == {p \in SeqToSet(LegacyMembers) : netBalanceOf(opt_balances, p) # 0}
  IN  Cardinality(unsettled) - MaxZeroSumParts(unsettled)

\* ---- C25: the transfers optimizeSettlements returns for finite debts
\* bring every member's net balance to zero, and no list of fewer
\* transfers does.
C25_FewestTransfers ==
  (opt_pc = "returned" /\ FiniteDebts) =>
    /\ \A p \in SeqToSet(LegacyMembers) : SettledBalanceOf(p) = 0
    /\ Len(opt_settlements) = MinTransfers

\* ---- C30: every iteration of the settlement loop emits a positive
\* amount, leaves the current debtor or the current creditor at exactly
\* zero and advances an index; so no more iterations run than there are
\* debtors and creditors.
C30_LoopIterationSettlesOneSide ==
  [][OptSettle =>
       /\ jsLess(0, opt_settlements'[Len(opt_settlements')].amount)
       /\ \/ opt_debtors'[opt_i + 1].balance = 0
          \/ opt_creditors'[opt_j + 1].balance = 0
       /\ opt_i' + opt_j' > opt_i + opt_j
       /\ Len(opt_settlements') <= Len(opt_debtors) + Len(opt_creditors)]_vars

\* Every operation of the hook was a refresh, and all have resolved.
AllRefreshesResolved ==
  \A k \in DOMAIN uh_ops : uh_ops[k].kind = "refresh" /\ uh_ops[k].phase = "done"

\* ---- C27: in useExpenses and useSettlements, once every refresh in
\* flight has been answered, the list in state is the one fetched for
\* filtersRef.current, whatever the order of the responses.
C27_ListIsForLatestFilters ==
  (uh_hook \in {"useExpenses", "useSettlements"} /\ AllRefreshesResolved) =>
    uh_list.filters = uh_filtersRef

\* ---- C28: isLoading is true exactly while some refresh, create,
\* update or delete of the hook is in flight.
C28_LoadingWhileInFlight ==
  uh_hook \in HookNames => (uh_isLoading <=> InFlight # {})
====
